---- MODULE Spec2Model ----
(***************************************************************************)
(* Model of the AIJH computer player of s25client                          *)
(* (libs/s25main/ai/aijh/AIPlayerJH.cpp).                                  *)
(*                                                                         *)
(* The controller is single threaded: every public entry point (RunGF, a   *)
(* notification callback, one of the periodic heuristics) runs to          *)
(* completion, so each is one action.  The world (flags, terrain, stocks)  *)
(* is the environment; it changes between two calls.                       *)
(*                                                                         *)
(* The module holds one specification per subsystem; they share the        *)
(* variables, and a specification keeps the other subsystems' variables    *)
(* at their idle value:                                                    *)
(*   SpecGrid   node grid and reachability propagation                     *)
(*   Spec       the tick (RunGF): event drain, dirty-cell flush, job       *)
(*              scheduler, planning                                        *)
(*   SpecDrain    the tick with a long event queue                         *)
(*   SpecGoods    DistributeGoodsByBlocking                                *)
(*   SpecResMap   one resource map                                         *)
(*   SpecAttack   TryToAttack                                              *)
(*   SpecSea      TrySeaAttack                                             *)
(*   SpecCtor     the constructor                                          *)
(*   SpecCadence  the periodic work of RunGF                               *)
(*   SpecHandlers event handlers while the world changes                   *)
(*   SpecNotes    the notification callbacks                               *)
(*   SpecCalc     CalcResource                                             *)
(*   SpecOrders   construction orders of a script                          *)
(*   SpecConnect  connection jobs whose flag is gone                       *)
(*   SpecFlush    the refresh of the tiles recorded by notifications       *)
(*   SpecSite     FindPositionForBuildingAround for quarry and fishery     *)
(*   SpecTwin     two controllers built alike in one world                 *)
(*   SpecResource the game type Resource                                   *)
(*   SpecDefeat   the first calls of RunGF and the defeat                  *)
(*   SpecRoads    RemoveUnusedRoad on a road network                       *)
(*   SpecRoadFail HandleRoadConstructionFailed on a road network           *)
(*   SpecExpedition HandleExpedition for a ship                            *)
(*   SpecOrigins  the own buildings TryToAttack searches from              *)
(*   SpecInspect  the assertions of SimpleFindPosition and BQsurroundcheck *)
(*   SpecGathering SetGatheringForUpgradeWarehouse                         *)
(*   SpecDemolition the demolition of PlanNewBuildings and the upgrade     *)
(*                building                                                 *)
(*   SpecFlood    IterativeReachableNodeChecker step by step; with its     *)
(*                fairness: SpecFloodFair                                  *)
(***************************************************************************)
EXTENDS Integers, Sequences, FiniteSets, TLC

(***************************************************************************)
(* Bounds of the model                                                     *)
(***************************************************************************)
\* extent of the map (columns, rows); the grid wraps around in both directions
MapWidth == 3
MapHeight == 2
\* most flags standing on the map
MaxFlags == 2
\* most grid operations (world changes and refreshes) after the construction
MaxGridOps == 2
\* most tiles outside the own territory
MaxForeign == 1
\* largest radius of a region refresh
MaxRadius == 1
\* most notifications the world sends in a burst (SpecDrain)
MaxEvents == 12
\* most notifications the world sends while jobs are planned and run (Spec)
MaxTickEvents == 2
\* most jobs ever created
MaxJobs == 45
\* most tick calls after the initialisation phase
MaxFullTicks == 2
\* most building-quality notes the world sends
MaxNodeNotes == 1
\* most storehouses of the faction whose goods are distributed
MaxWarehouses == 3
\* most DistributeGoodsByBlocking calls
MaxDistCalls == 1
\* most operations on the resource map
MaxResOps == 3
\* most tiles that hold the resource
MaxResTiles == 2
\* own military buildings near the frontier, and buildings of other players
MaxOwnMil == 1
MaxTargets == 2
\* ships of the player, and harbor points of the map
MaxShips == 1
MaxHarborPoints == 2
\* largest player id
MaxPlayerId == 2
\* most notifications published
MaxNotes == 2

VARIABLES
    \* ---- world, node related (read through gwb / aii) ----
    flagOwner,      \* tile -> 0: no flag, 1: flag of this player, 2: flag of another player
    nodeOk,         \* tiles that pass PathConditionRoad::IsNodeOk
    ownTerritory,   \* tiles for which aii.IsOwnTerritory holds
    worldBQ,        \* tile -> aii.GetBuildingQuality
    flagBuilding,   \* tiles whose flag belongs to a building or building site
    numStorehouses, \* aii.GetStorehouses().size()
    numMilitary,    \* aii.GetMilitaryBuildings().size()
    \* ---- construction parameters ----
    playerId,
    level,
    \* ---- controller ----
    aiMap,          \* tile -> Node
    isInitGfCompleted,
    defeated,
    eventQueue,     \* eventManager: events not yet dispatched, oldest first
    buildJobs,      \* construction->buildJobs
    connectJobs,    \* construction->connectJobs
    nodesWithOutdatedBQ,
    resourceMap,    \* resourceMaps[res] of one resource: tile -> value
    avoided,        \* the tiles that resource map has been told to avoid
    \* ---- world, goods and resources ----
    storehouses,    \* aii.GetStorehouses(): wares of the good, Stop setting, road network
    harbors,        \* aii.GetHarbors().size()
    worldRes,       \* tiles that hold the resource
    \* ---- observation ----
    gridOp,         \* the last grid operation and what it saw
    hist,           \* what happened so far: ids handed out, events dispatched, jobs failed
    tickLog,        \* what the last RunGF call did
    distLog,        \* what the last DistributeGoodsByBlocking call did
    resLog,         \* the last operation on the resource map
    \* ---- world, military ----
    milBlds,        \* aii.GetMilitaryBuildings() as far as they lie near the frontier
    targets,        \* the buildings of other players LookForMilitaryBuildings finds around them
    attackLog,      \* what the last TryToAttack call did
    \* ---- world, sea ----
    numShips,       \* aii.GetNumShips(), all ships on the one sea
    seaSoldiers,    \* gwb.GetNumSoldiersForSeaAttackAtSea for that sea
    harborPoints,   \* the harbor points from index 1 on: the harbor and the buildings around
    seaLog,         \* what the last TrySeaAttack call did
    \* ---- construction ----
    constructed,    \* "no": before the constructor, "yes", or the exception it threw
    intervals,      \* <<attack_interval, build_interval>>
    subscriptions,  \* the notification classes the controller is subscribed to
    \* ---- world, buildings ----
    buildingOn,     \* tile -> the type of the building that stands on it, or "Nothing"
    \* ---- observation of the notifications ----
    noteLog,        \* the notifications published so far, and the last of them
    \* ---- world, resources of one tile ----
    tileRes,        \* what aii and gwb tell about the tile CalcResource is asked for
    calcLog,        \* what the last CalcResource call returned
    \* ---- world, construction orders ----
    luaWorld,       \* what the world answers when a construction order is executed
    \* ---- a second controller ----
    twinLog,        \* what TryToAttack of a controller built alike did in the same world
    \* ---- game types ----
    gameRes,        \* a Resource object: its type and its amount
    gameResLog,     \* the last operation on it
    \* ---- RemoveUnusedRoad ----
    roadNet,        \* flags, the roads between them, the flags of buildings
    roadLog,        \* what the last call of RemoveUnusedRoad did
    \* ---- single heuristics ----
    heurWorld,      \* what a heuristic reads of the world when it is called
    heurLog,        \* what the last call of a heuristic did
    \* ---- IterativeReachableNodeChecker step by step ----
    flood           \* the queue toCheck, the place in the loop over the neighbours

gridWorld == <<flagOwner, nodeOk, ownTerritory, worldBQ, flagBuilding>>
tickWorld == <<numStorehouses, numMilitary, playerId, level>>
tickCtl == <<isInitGfCompleted, defeated, eventQueue, buildJobs, connectJobs,
             nodesWithOutdatedBQ, hist, tickLog>>
goodsVars == <<storehouses, harbors, distLog>>
resVars == <<resourceMap, avoided, worldRes, resLog>>
attackVars == <<milBlds, targets, attackLog>>
seaVars == <<numShips, seaSoldiers, harborPoints, seaLog>>
ctorVars == <<constructed, intervals, subscriptions>>
calcVars == <<tileRes, calcLog>>
gameVars == <<gameRes, gameResLog>>
roadVars == <<roadNet, roadLog>>
heurVars == <<heurWorld, heurLog, flood>>
restVars == <<luaWorld, twinLog, gameVars, roadVars, heurVars>>
auxVars == <<attackVars, seaVars, ctorVars, buildingOn, noteLog, calcVars, restVars>>
vars == <<gridWorld, tickWorld, tickCtl, aiMap, gridOp, goodsVars, resVars, auxVars>>

(***************************************************************************)
(* Map topology.  A tile is the index y * MapWidth + x.                    *)
(***************************************************************************)
NumTiles == MapWidth * MapHeight
Tiles == 0 .. (NumTiles - 1)

XOf(pt) == pt % MapWidth
YOf(pt) == pt \div MapWidth
MakePt(x, y) == (y % MapHeight) * MapWidth + (x % MapWidth)

\* the six neighbours of a tile in the order West, NorthWest, NorthEast, East,
\* SouthEast, SouthWest; odd rows are shifted half a tile to the right
GetNeighbours(pt) ==
    LET x == XOf(pt)
        y == YOf(pt)
        odd == (y % 2 = 1)
        xl == IF odd THEN x ELSE x + MapWidth - 1
        xr == IF odd THEN x + 1 ELSE x
    IN << MakePt(x + MapWidth - 1, y),
          MakePt(xl, y + MapHeight - 1),
          MakePt(xr, y + MapHeight - 1),
          MakePt(x + 1, y),
          MakePt(xr, y + 1),
          MakePt(xl, y + 1) >>

NeighbourSet(pt) == {GetNeighbours(pt)[i] : i \in 1..6}

Min(a, b) == IF a < b THEN a ELSE b

RECURSIVE StepsFrom(_, _)
\* tiles at most `radius` steps from pt
StepsFrom(pt, radius) ==
    IF radius = 0 THEN {pt}
    ELSE UNION {NeighbourSet(q) \cup {q} : q \in StepsFrom(pt, radius - 1)}

\* from this radius on, the tiles around a tile are the whole map
WholeMapRadius == MapWidth + MapHeight

\* the tiles within the radius of a tile, the tile itself included
PointsInRadiusWithCenter ==
    [pt \in Tiles |-> [r \in 0..WholeMapRadius |-> StepsFrom(pt, r)]]

Ball(pt, radius) == PointsInRadiusWithCenter[pt][Min(radius, WholeMapRadius)]

\* the tiles of a set in index order
SetToSeq(S) == SelectSeq([i \in 1..NumTiles |-> i - 1], LAMBDA t : t \in S)

\* the tiles around every tile for every radius, the tile itself left out
PointsInRadius ==
    [pt \in Tiles |-> [r \in 0..WholeMapRadius |-> SetToSeq(Ball(pt, r) \ {pt})]]

\* the tiles around pt, pt itself left out (SetFarmedNodes sets the centre apart)
GetPointsInRadius(pt, radius) == PointsInRadius[pt][Min(radius, WholeMapRadius)]

(***************************************************************************)
(* World queries                                                           *)
(***************************************************************************)
\* The operators below take the world as a record w, so that each is a function
\* of its arguments alone.
World == [flagOwner |-> flagOwner, nodeOk |-> nodeOk, ownTerritory |-> ownTerritory,
          worldBQ |-> worldBQ, flagBuilding |-> flagBuilding,
          numStorehouses |-> numStorehouses, numMilitary |-> numMilitary,
          playerId |-> playerId, level |-> level, buildingOn |-> buildingOn,
          lua |-> luaWorld]

NoBuildings == [pt \in Tiles |-> "Nothing"]

\* a world that allows and wants every building type; orders come forced
NoLuaWorld == [canBuild |-> TRUE, wanted |-> TRUE, forced |-> TRUE]

\* gwb.GetSpecObj<noFlag>(pt) && flag->GetPlayer() == playerId
IsOwnFlag(w, pt) == w.flagOwner[pt] = 1

IsNodeOk(w, pt) == pt \in w.nodeOk

IsOwnTerritory(w, pt) == pt \in w.ownTerritory

GetBuildingQuality(w, pt) == w.worldBQ[pt]

\* an own tile with a neighbour that is not own
IsBorder(w, pt) == pt \in w.ownTerritory /\ \E q \in NeighbourSet(pt) : q \notin w.ownTerritory

(***************************************************************************)
(* Node grid                                                               *)
(***************************************************************************)
\* the test of a neighbour that marks it reachable whatever its penalty
CheckNeighbourIgnoresPenalty(w, map, toCheck, curNeighbour) ==
    IF map[curNeighbour].reachable THEN [map |-> map, toCheck |-> toCheck]
    ELSE IF IsNodeOk(w, curNeighbour)
    THEN [map |-> [map EXCEPT ![curNeighbour].reachable = TRUE],
          toCheck |-> Append(toCheck, curNeighbour)]
    ELSE [map |-> map, toCheck |-> toCheck]

\* lines 581-598: the body of the loop over the neighbours of curPt
CheckNeighbour(w, map, toCheck, curNeighbour) ==
    IF map[curNeighbour].reachable THEN [map |-> map, toCheck |-> toCheck]
    ELSE IF IsNodeOk(w, curNeighbour)
    THEN IF map[curNeighbour].failed_penalty = 0
         THEN [map |-> [map EXCEPT ![curNeighbour].reachable = TRUE],
               toCheck |-> Append(toCheck, curNeighbour)]
         ELSE [map |-> [map EXCEPT ![curNeighbour].failed_penalty = @ - 1],
               toCheck |-> toCheck]
    ELSE [map |-> map, toCheck |-> toCheck]

RECURSIVE CheckNeighbours(_, _, _, _, _)
\* the inner loop of IterativeReachableNodeChecker over the neighbours i..6 of curPt
CheckNeighbours(w, map, toCheck, nbs, i) ==
    IF i > Len(nbs) THEN [map |-> map, toCheck |-> toCheck]
    ELSE LET r == CheckNeighbour(w, map, toCheck, nbs[i])
         IN CheckNeighbours(w, r.map, r.toCheck, nbs, i + 1)

RECURSIVE IterativeReachableNodeChecker(_, _, _)
IterativeReachableNodeChecker(w, map, toCheck) ==
    IF toCheck = <<>> THEN map
    ELSE LET curPt == Head(toCheck)
             r == CheckNeighbours(w, map, toCheck, GetNeighbours(curPt), 1)
         IN IterativeReachableNodeChecker(w, r.map, Tail(r.toCheck))

RECURSIVE SeedNodesAnyFlag(_, _, _, _, _, _)
\* SeedNodes without the test of the flag's player
SeedNodesAnyFlag(w, map, toCheck, pts, i, resetPenalty) ==
    IF i > Len(pts) THEN [map |-> map, toCheck |-> toCheck]
    ELSE LET pt == pts[i]
             m0 == IF resetPenalty THEN [map EXCEPT ![pt].failed_penalty = 0] ELSE map
         IN IF w.flagOwner[pt] # 0
            THEN SeedNodesAnyFlag(w, [m0 EXCEPT ![pt].reachable = TRUE],
                                  Append(toCheck, pt), pts, i + 1, resetPenalty)
            ELSE SeedNodesAnyFlag(w, [m0 EXCEPT ![pt].reachable = FALSE], toCheck,
                                  pts, i + 1, resetPenalty)

RECURSIVE SeedNodes(_, _, _, _, _, _)
\* the loop over pts that marks own flags reachable and queues them, and marks
\* every other tile of pts unreachable; resetPenalty: also zero the failed penalty
SeedNodes(w, map, toCheck, pts, i, resetPenalty) ==
    IF i > Len(pts) THEN [map |-> map, toCheck |-> toCheck]
    ELSE LET pt == pts[i]
             m0 == IF resetPenalty THEN [map EXCEPT ![pt].failed_penalty = 0] ELSE map
         IN IF IsOwnFlag(w, pt)
            THEN SeedNodes(w, [m0 EXCEPT ![pt].reachable = TRUE], Append(toCheck, pt),
                           pts, i + 1, resetPenalty)
            ELSE SeedNodes(w, [m0 EXCEPT ![pt].reachable = FALSE], toCheck,
                           pts, i + 1, resetPenalty)

InitReachableNodes(w, map) ==
    LET s == SeedNodes(w, map, <<>>, SetToSeq(Tiles), 1, TRUE)
    IN IterativeReachableNodeChecker(w, s.map, s.toCheck)

UpdateReachableNodes(w, map, pts) ==
    LET s == SeedNodes(w, map, <<>>, pts, 1, FALSE)
    IN IterativeReachableNodeChecker(w, s.map, s.toCheck)

\* the grid as aiMap.Resize leaves it
BlankMap == [pt \in Tiles |-> [reachable |-> FALSE, failed_penalty |-> 0, bq |-> 0,
                               owned |-> FALSE, border |-> FALSE, farmed |-> FALSE]]

InitNodes(w) ==
    LET m == InitReachableNodes(w, BlankMap)
    IN [pt \in Tiles |-> [m[pt] EXCEPT !.bq = GetBuildingQuality(w, pt),
                                       !.owned = IsOwnTerritory(w, pt),
                                       !.border = IsBorder(w, pt),
                                       !.farmed = FALSE]]

UpdateNodesAroundMap(w, map, pt, radius) ==
    LET pts == GetPointsInRadius(pt, radius)
        inPts == {pts[i] : i \in 1..Len(pts)}
        m == UpdateReachableNodes(w, map, pts)
    IN [q \in Tiles |-> IF q \in inPts
                        THEN [m[q] EXCEPT !.bq = GetBuildingQuality(w, q),
                                          !.owned = IsOwnTerritory(w, q),
                                          !.border = IsBorder(w, q)]
                        ELSE m[q]]

(***************************************************************************)
(* The tick: RunGF and what it calls                                       *)
(***************************************************************************)
\* the record of the last grid operation, before any
NoGridOp == [op |-> "construct", pt |-> 0, radius |-> 0, ownerChanged |-> FALSE, n |-> 0]

Levels == {"Easy", "Medium", "Hard"}

\* the cadences the constructor sets for the level
AttackInterval(lv) ==
    CASE lv = "Easy" -> 2500 [] lv = "Medium" -> 750 [] lv = "Hard" -> 100

BuildInterval(lv) ==
    CASE lv = "Easy" -> 1000 [] lv = "Medium" -> 400 [] lv = "Hard" -> 200

\* events handled per call
EventQuota == 10
\* ceiling of the jobs attempted per call
JobQuotaCap == 40
\* RunGF calls that only initialise
InitGfCalls == 10
\* ticks between two MilUpgradeOptim calls
MilUpgradePeriod == 73

NoLog == [gf |-> 0, phase |-> "none", steps |-> <<>>, eventsBefore |-> <<>>,
          dispatched |-> <<>>, eventsLeft |-> <<>>, dirtySeen |-> {},
          flushed |-> <<>>, quota |-> 0, connectBefore |-> <<>>,
          buildBefore |-> <<>>, advanced |-> <<>>, failed |-> {},
          periodic |-> {}, cmds |-> <<>>, front |-> {}]

NoHist == [nextEventId |-> 1, nextJobId |-> 1, dispatched |-> <<>>, failedJobs |-> {},
           fullTicks |-> 0, nodeNotes |-> 0, frontOrders |-> {}]

\* the controller as one record c, so that the operators of a call are
\* functions of their arguments
Controller == [isInitGfCompleted |-> isInitGfCompleted, defeated |-> defeated,
               eventQueue |-> eventQueue, buildJobs |-> buildJobs,
               connectJobs |-> connectJobs, nodesWithOutdatedBQ |-> nodesWithOutdatedBQ,
               aiMap |-> aiMap, hist |-> hist, log |-> tickLog]

LogStep(c, name) == [c EXCEPT !.log.steps = Append(@, name)]
LogPeriodic(c, name) == [c EXCEPT !.log.periodic = @ \cup {name}]
LogCmd(c, cmd) == [c EXCEPT !.log.cmds = Append(@, cmd)]

\* ---- job queues (AIConstruction) ----
NewJob(c, kind, type, pt) ==
    [id |-> c.hist.nextJobId, kind |-> kind, type |-> type, pt |-> pt, state |-> "Initial"]

\* construction->AddBuildJob(job, front)
ConstructionAddBuildJob(c, job, front) ==
    [c EXCEPT !.buildJobs = IF front THEN <<job>> \o @ ELSE Append(@, job),
              !.hist.nextJobId = @ + 1]

AddBuildJob(c, type, pt, front) ==
    ConstructionAddBuildJob(c, NewJob(c, "build", type, pt), front)

\* construction->AddConnectFlagJob(flag)
AddConnectFlagJob(c, pt) ==
    [c EXCEPT !.connectJobs = Append(@, NewJob(c, "connect", "Flag", pt)),
              !.hist.nextJobId = @ + 1]

\* n calls of AddBuildJob(type, pt, false), one for each of n buildings (the
\* positions are not told apart)
AddBuildJobs(c, type, pt, n) ==
    [c EXCEPT !.buildJobs = @ \o [i \in 1..n |->
                                     [id |-> c.hist.nextJobId + i - 1, kind |-> "build",
                                      type |-> type, pt |-> pt, state |-> "Initial"]],
              !.hist.nextJobId = @ + n]

AddBuildJobAroundEveryWarehouse(c, w, type) == AddBuildJobs(c, type, 0, w.numStorehouses)

AddBuildJobAroundEveryMilBld(c, w, type) == AddBuildJobs(c, type, 0, w.numMilitary)

\* the step of a job that goes on trying when its flag is gone
JobStepKeepsTrying(w, job, ok) ==
    IF job.kind = "connect"
    THEN IF ok /\ IsOwnFlag(w, job.pt) THEN [job EXCEPT !.state = "Done"]
         ELSE [job EXCEPT !.state = "ConnectingRoad"]
    ELSE CASE job.state = "Initial" -> [job EXCEPT !.state = "SearchingPosition"]
           [] job.state = "SearchingPosition" ->
                  [job EXCEPT !.state = IF ok THEN "PlacingSite" ELSE "Failed"]
           [] job.state = "PlacingSite" ->
                  [job EXCEPT !.state = IF ok THEN "ConnectingRoad" ELSE "PlacingSite"]
           [] job.state = "ConnectingRoad" ->
                  [job EXCEPT !.state = IF ok THEN "Done" ELSE "ConnectingRoad"]
           [] OTHER -> job

\* one step of a job's state machine; ok: whether the world lets the search, the
\* placement or the road succeed
JobStep(w, job, ok) ==
    IF job.kind = "connect"
    THEN IF ~IsOwnFlag(w, job.pt) THEN [job EXCEPT !.state = "Failed"]
         ELSE IF ok THEN [job EXCEPT !.state = "Done"]
         ELSE [job EXCEPT !.state = "ConnectingRoad"]
    ELSE CASE job.state = "Initial" -> [job EXCEPT !.state = "SearchingPosition"]
           [] job.state = "SearchingPosition" ->
                  [job EXCEPT !.state = IF ok THEN "PlacingSite" ELSE "Failed"]
           [] job.state = "PlacingSite" ->
                  [job EXCEPT !.state = IF ok THEN "ConnectingRoad" ELSE "PlacingSite"]
           [] job.state = "ConnectingRoad" ->
                  [job EXCEPT !.state = IF ok THEN "Done" ELSE "ConnectingRoad"]
           [] OTHER -> job

JobOver(job) == job.state \in {"Done", "Failed"}

IsFailed(job) == job.state = "Failed"

JobGoesOn(job) == ~JobOver(job)

\* the queue handling that keeps a failed job in the queue
RunJobsKeepFailed(c, w, which, n, ok) ==
    LET q == c[which]
        m == Min(n, Len(q))
        stepped == [i \in 1..m |-> JobStep(w, q[i], ok)]
        failed == {stepped[i].id : i \in {k \in 1..m : IsFailed(stepped[k])}}
    IN [c EXCEPT ![which] = SubSeq(q, m + 1, Len(q))
                               \o SelectSeq(stepped, LAMBDA j : j.state # "Done"),
                 !.log.advanced = @ \o [i \in 1..m |-> q[i].id],
                 !.log.failed = @ \cup failed,
                 !.hist.failedJobs = @ \cup failed]

\* takes n jobs from the front of the queue `which`, steps each once and puts the
\* ones that are not over at the back
RunJobs(c, w, which, n, ok) ==
    LET q == c[which]
        m == Min(n, Len(q))
        stepped == [i \in 1..m |-> JobStep(w, q[i], ok)]
        failed == {stepped[i].id : i \in {k \in 1..m : IsFailed(stepped[k])}}
    IN [c EXCEPT ![which] = SubSeq(q, m + 1, Len(q)) \o SelectSeq(stepped, JobGoesOn),
                 !.log.advanced = @ \o [i \in 1..m |-> q[i].id],
                 !.log.failed = @ \cup failed,
                 !.hist.failedJobs = @ \cup failed,
                 !.hist.frontOrders = {p \in @ : \A i \in 1..m : q[i].id # p.id}]

JobIds(q) == [i \in 1..Len(q) |-> q[i].id]

\* construction->ExecuteJobs(limit): connection jobs first, then construction
\* jobs, each job of a queue at most once, limit jobs in all
ExecuteJobs(c, w, limit, ok) ==
    LET nConnect == Min(limit, Len(c.connectJobs))
        nBuild == Min(limit - nConnect, Len(c.buildJobs))
        c1 == [c EXCEPT !.log.connectBefore = JobIds(c.connectJobs),
                        !.log.buildBefore = JobIds(c.buildJobs)]
    IN RunJobs(RunJobs(c1, w, "connectJobs", nConnect, ok), w, "buildJobs", nBuild, ok)

\* ---- event handlers ----
HandleBuildingFinished(c, w, pt, bld) ==
    CASE bld = "Woodcutter" -> AddBuildJob(c, "Sawmill", pt, FALSE)
      [] OTHER -> c

\* RemoveUnusedRoad(flag, none, true, false) for a flag without roads: TRUE when
\* the flag belongs to a building, else the flag is torn down
RemoveUnusedRoadKeeps(w, pt) == pt \in w.flagBuilding

HandleRoadConstructionFailed(c, w, pt) ==
    IF w.flagOwner[pt] = 0 THEN c
    ELSE IF ~IsOwnFlag(w, pt) THEN c
    ELSE IF RemoveUnusedRoadKeeps(w, pt) THEN AddConnectFlagJob(c, pt)
    ELSE LogCmd(c, <<"DestroyFlag", pt>>)

\* UpdateNodesAround on the controller record
RefreshAround(c, w, pt, radius) ==
    [c EXCEPT !.aiMap = UpdateNodesAroundMap(w, c.aiMap, pt, radius)]

\* radius of RemoveAllUnusedRoads
RoadCheckRadius == 25
\* radius of the refresh in HandleNoMoreResourcesReachable
ResourceGoneRadius == 11

\* construction->FindFlags(pt, radius): the own flags around pt
FindFlags(w, pt, radius) ==
    SetToSeq({t \in Ball(pt, Min(radius, WholeMapRadius)) : IsOwnFlag(w, t)})

RECURSIVE DestroyUnusedFlags(_, _, _, _)
\* the first loop of RemoveAllUnusedRoads: RemoveUnusedRoad destroys a flag
\* without roads that belongs to no building
DestroyUnusedFlags(c, w, flags, i) ==
    IF i > Len(flags) THEN c
    ELSE IF RemoveUnusedRoadKeeps(w, flags[i]) THEN DestroyUnusedFlags(c, w, flags, i + 1)
    ELSE DestroyUnusedFlags(LogCmd(c, <<"DestroyFlag", flags[i]>>), w, flags, i + 1)

RECURSIVE ReconnectFlags(_, _, _, _)
\* the last loop of RemoveAllUnusedRoads
ReconnectFlags(c, w, flags, i) ==
    IF i > Len(flags) THEN c
    ELSE IF RemoveUnusedRoadKeeps(w, flags[i])
    THEN ReconnectFlags(AddConnectFlagJob(c, flags[i]), w, flags, i + 1)
    ELSE ReconnectFlags(c, w, flags, i + 1)

RemoveAllUnusedRoads(c, w, pt) ==
    LET flags == FindFlags(w, pt, RoadCheckRadius)
        c1 == DestroyUnusedFlags(c, w, flags, 1)
        c2 == RefreshAround(c1, w, pt, RoadCheckRadius)
    IN ReconnectFlags(c2, w, flags, 1)

\* gwb.GetSpecObj<nobMilitary>(pt)
IsMilitary(w, pt) == w.buildingOn[pt] \in {"Barracks", "Guardhouse"}

\* the building is near the frontier with coins allowed, no harbor position is
\* close, no soldier is in store and none of the tested buildings is wanted
HandleNewMilitaryBuildingOccupied(c, w, pt) ==
    LET c1 == RemoveAllUnusedRoads(c, w, pt)
        c2 == LogPeriodic(c1, "UpdateBuildingsWanted")
    IN IF ~IsMilitary(w, pt) THEN c2
       ELSE AddBuildJob(c2, "HarborBuilding", pt, FALSE)

\* no forester is near, and ChooseMilitaryBuilding picks none
HandleNoMoreResourcesReachable(c, w, pt, bld) ==
    IF w.buildingOn[pt] = "Nothing" THEN c
    ELSE LET c1 == LogCmd(c, <<"DestroyBuilding", pt>>)
             c2 == RefreshAround(c1, w, pt, ResourceGoneRadius)
             c3 == LogCmd(c2, <<"DestroyFlag", GetNeighbours(pt)[5]>>)
             c4 == IF bld # "Hunter" THEN AddBuildJob(c3, bld, pt, FALSE) ELSE c3
         IN AddBuildJob(c4, "Farm", pt, FALSE)

\* what is noted of the job of an order: its id and the ids waiting then
NoteOrder(c, job) ==
    LET order == [id |-> job.id, waiting |-> {c.buildJobs[i].id : i \in 1..Len(c.buildJobs)}]
    IN [c EXCEPT !.hist.frontOrders = @ \cup {order}, !.log.front = @ \cup {order}]

\* the order whose job goes to the back of the queue
ExecuteLuaConstructionOrderAtBack(c, w, pt, bt, forced) ==
    IF ~w.lua.canBuild THEN c
    ELSE IF forced
    THEN LET j == [NewJob(c, "build", bt, pt) EXCEPT !.state = "ConnectingRoad"]
         IN ConstructionAddBuildJob(NoteOrder(LogCmd(c, <<"SetBuildingSite", pt>>), j), j, FALSE)
    ELSE IF w.lua.wanted
    THEN LET j == NewJob(c, "build", bt, pt)
         IN ConstructionAddBuildJob(NoteOrder(c, j), j, FALSE)
    ELSE c

\* the job of a forced order starts in the state that connects the site to the
\* roads (ExecutingRoad1)
ExecuteLuaConstructionOrder(c, w, pt, bt, forced) ==
    IF ~w.lua.canBuild THEN c
    ELSE IF forced
    THEN LET j == [NewJob(c, "build", bt, pt) EXCEPT !.state = "ConnectingRoad"]
         IN ConstructionAddBuildJob(NoteOrder(LogCmd(c, <<"SetBuildingSite", pt>>), j), j, TRUE)
    ELSE IF w.lua.wanted
    THEN LET j == NewJob(c, "build", bt, pt)
         IN ConstructionAddBuildJob(NoteOrder(c, j), j, TRUE)
    ELSE c

\* EventJob::ExecuteJob: the handler of the event's type
HandleEvent(c, w, ev) ==
    CASE ev.type = "BuildingFinished" -> HandleBuildingFinished(c, w, ev.pt, ev.bld)
      [] ev.type = "RoadConstructionFailed" -> HandleRoadConstructionFailed(c, w, ev.pt)
      [] ev.type = "NewMilitaryBuildingOccupied" ->
            HandleNewMilitaryBuildingOccupied(c, w, ev.pt)
      [] ev.type = "NoMoreResourcesReachable" ->
            HandleNoMoreResourcesReachable(c, w, ev.pt, ev.bld)
      [] ev.type = "LuaConstructionOrder" ->
            ExecuteLuaConstructionOrder(c, w, ev.pt, ev.bld, w.lua.forced)
      [] OTHER -> c

\* eventManager.GetEvent() and the dispatch of the event
DispatchFront(c, w) ==
    LET ev == Head(c.eventQueue)
        c1 == [c EXCEPT !.eventQueue = Tail(@),
                        !.hist.dispatched = Append(@, ev.id),
                        !.log.dispatched = Append(@, ev.id),
                        !.log.dirtySeen = @ \cup {Len(c.nodesWithOutdatedBQ)}]
    IN HandleEvent(c1, w, ev)

RECURSIVE DrainEventsUnlimited(_, _, _)
\* the drain loop without the quota
DrainEventsUnlimited(c, w, quota) ==
    IF c.eventQueue # <<>>
    THEN DrainEventsUnlimited(DispatchFront(c, w), w, quota)
    ELSE c

RECURSIVE DrainEventsLastOnly(_, _, _)
\* the drain loop that pops every event but handles only the one popped last
DrainEventsLastOnly(c, w, quota) ==
    IF c.eventQueue # <<>> /\ quota # 0
    THEN IF Len(c.eventQueue) = 1 \/ quota = 1
         THEN DispatchFront(c, w)
         ELSE DrainEventsLastOnly([c EXCEPT !.eventQueue = Tail(@)], w, quota - 1)
    ELSE c

RECURSIVE DrainEvents(_, _, _)
\* while(eventManager.EventAvailable() && quota) { quota--; ... ExecuteJob(); }
DrainEvents(c, w, quota) ==
    IF c.eventQueue # <<>> /\ quota # 0
    THEN DrainEvents(DispatchFront(c, w), w, quota - 1)
    ELSE c

\* the job quota without its ceiling
JobQuotaUncapped(w) == w.numStorehouses + w.numMilitary

JobQuota(w) ==
    IF w.numStorehouses + w.numMilitary > JobQuotaCap THEN JobQuotaCap
    ELSE w.numStorehouses + w.numMilitary

EventIds(q) == [i \in 1..Len(q) |-> q[i].id]

\* the first part of ExecuteAIJob: handle the waiting events, EventQuota at most
DrainEventQueue(c, w) ==
    LET c0 == [LogStep(c, "drainEvents") EXCEPT !.log.eventsBefore = EventIds(c.eventQueue)]
        c1 == DrainEvents(c0, w, EventQuota)
    IN [c1 EXCEPT !.log.eventsLeft = EventIds(c1.eventQueue)]

\* the second part of ExecuteAIJob: run the construction and connection jobs
AdvanceJobs(c, w, ok) ==
    LET quota == JobQuota(w)
    IN ExecuteJobs([LogStep(c, "executeJobs") EXCEPT !.log.quota = quota], w, quota, ok)

ExecuteAIJob(c, w, ok) == AdvanceJobs(DrainEventQueue(c, w), w, ok)

RECURSIVE RefreshBQ(_, _, _, _)
RefreshBQ(map, w, pts, i) ==
    IF i > Len(pts) THEN map
    ELSE RefreshBQ([map EXCEPT ![pts[i]].bq = GetBuildingQuality(w, pts[i])], w, pts, i + 1)

\* the list left as it was recorded
MakeUniqueKeepsAll(pts) == pts

\* helpers::makeUnique(nodesWithOutdatedBQ, MapPointLess()): sorted, no duplicates
MakeUnique(pts) == SetToSeq({pts[i] : i \in 1..Len(pts)})

\* the flush that empties the list and refreshes nothing
FlushOutdatedBQForgets(c, w) ==
    [LogStep(c, "flushBQ") EXCEPT !.nodesWithOutdatedBQ = <<>>]

\* the block of RunGF that refreshes the building quality of the recorded tiles
FlushOutdatedBQ(c, w) ==
    IF c.nodesWithOutdatedBQ # <<>>
    THEN LET pts == MakeUnique(c.nodesWithOutdatedBQ)
         IN [LogStep(c, "flushBQ") EXCEPT !.aiMap = RefreshBQ(c.aiMap, w, pts, 1),
                                          !.nodesWithOutdatedBQ = <<>>,
                                          !.log.flushed = pts]
    ELSE LogStep(c, "flushBQ")

\* the radius of the region refreshed before the planning around a building
PlanRadius == 15

\* PlanNewBuildings as far as the node grid and the job queues go; the picked
\* storehouse and military building stand on tile 0; demand: how many of the
\* tested building types are wanted, and whether a military building is chosen
PlanNewBuildings(c, w, demand) ==
    LET c0 == LogPeriodic(c, "PlanNewBuildings")
        c1 == IF w.numStorehouses > 0
              THEN LET r == RefreshAround(c0, w, 0, PlanRadius)
                       a == IF demand > 0
                            THEN AddBuildJobAroundEveryWarehouse(r, w, "Sawmill")
                            ELSE r
                   IN IF demand > 0 THEN AddBuildJob(a, "Barracks", 0, FALSE) ELSE a
              ELSE c0
    IN IF w.numMilitary = 0 THEN c1
       ELSE LET r == RefreshAround(c1, w, 0, PlanRadius)
                b == IF demand > 0
                     THEN AddBuildJobAroundEveryMilBld(r, w, "Woodcutter")
                     ELSE r
            IN IF demand > 0 THEN AddBuildJob(b, "Barracks", 0, FALSE) ELSE b

\* the test of the defeat without the test of the initialisation
TestDefeatUninitialised(c, w) == w.numStorehouses = 0

\* line 390
TestDefeat(c, w) == c.isInitGfCompleted >= InitGfCalls /\ w.numStorehouses = 0

\* the periodic part of RunGF after ExecuteAIJob
\* the cadence of MilUpgradeOptim without the test of the level
MilUpgradeDueAnyLevel(w, gf) == (gf + w.playerId * 17) % MilUpgradePeriod = 0

\* line 264
MilUpgradeDue(w, gf) == (gf + w.playerId * 17) % MilUpgradePeriod = 0 /\ w.level # "Easy"

RunPeriodic(c, w, gf, demand) ==
    LET shift17 == gf + w.playerId * 17
        c1 == IF shift17 % AttackInterval(w.level) = 0
              THEN LogPeriodic(c, "TryToAttack") ELSE c
        c2 == IF MilUpgradeDue(w, gf)
              THEN LogPeriodic(c1, "MilUpgradeOptim") ELSE c1
        c3 == IF (gf + 41 + w.playerId * 17) % AttackInterval(w.level) = 0
              THEN LogPeriodic(c2, "TrySeaAttack") ELSE c2
        c4 == IF (gf + w.playerId * 13) % 1500 = 0
              THEN LogPeriodic(c3, "CheckExpeditions") ELSE c3
        c5 == IF (gf + w.playerId * 11) % 150 = 0
              THEN LogPeriodic(c4, "AdjustSettings") ELSE c4
    IN IF (gf + w.playerId * 7) % BuildInterval(w.level) = 0
       THEN PlanNewBuildings(LogPeriodic(c5, "CheckForUnconnectedBuildingSites"), w, demand)
       ELSE c5

\* RunGF with the refresh of the recorded tiles after the event drain
RunGFFlushLast(c0, w, gf, demand, ok) ==
    LET c == [c0 EXCEPT !.log = [NoLog EXCEPT !.gf = gf]]
    IN IF c.defeated THEN [c EXCEPT !.log.phase = "defeated"]
       ELSE IF TestDefeat(c, w)
       THEN LogCmd(LogCmd([c EXCEPT !.defeated = TRUE, !.log.phase = "surrender"],
                          <<"Surrender">>), <<"Chat">>)
       ELSE IF c.isInitGfCompleted < InitGfCalls
       THEN LET c1 == IF c.isInitGfCompleted = 0
                      THEN LogStep(LogStep(c, "InitStoreAndMilitarylists"),
                                   "InitDistribution")
                      ELSE c
            IN [c1 EXCEPT !.isInitGfCompleted = @ + 1, !.log.phase = "init"]
       ELSE LET c1 == IF gf = 100 /\ w.numMilitary = 0 /\ w.numStorehouses < 2
                      THEN LogCmd(c, <<"Chat">>) ELSE c
                c3 == IF gf % 100 = 0 THEN LogPeriodic(c1, "UpdateBuildingsWanted") ELSE c1
                c4 == AdvanceJobs(FlushOutdatedBQ(DrainEventQueue(c3, w), w), w, ok)
                c5 == [c4 EXCEPT !.hist.fullTicks = @ + 1, !.log.phase = "full"]
            IN RunPeriodic(c5, w, gf, demand)

\* RunGF without the test of 'defeated'
RunGFStepOfDefeated(c0, w, gf, demand, ok) ==
    LET c == [c0 EXCEPT !.log = [NoLog EXCEPT !.gf = gf]]
    IN IF TestDefeat(c, w)
       THEN LogCmd(LogCmd([c EXCEPT !.defeated = TRUE, !.log.phase = "surrender"],
                          <<"Surrender">>), <<"Chat">>)
       ELSE IF c.isInitGfCompleted < InitGfCalls
       THEN LET c1 == IF c.isInitGfCompleted = 0
                      THEN LogStep(LogStep(c, "InitStoreAndMilitarylists"),
                                   "InitDistribution")
                      ELSE c
            IN [c1 EXCEPT !.isInitGfCompleted = @ + 1, !.log.phase = "init"]
       ELSE LET c1 == IF gf = 100 /\ w.numMilitary = 0 /\ w.numStorehouses < 2
                      THEN LogCmd(c, <<"Chat">>) ELSE c
                c2 == FlushOutdatedBQ(c1, w)
                c3 == IF gf % 100 = 0 THEN LogPeriodic(c2, "UpdateBuildingsWanted") ELSE c2
                c4 == ExecuteAIJob(c3, w, ok)
                c5 == [c4 EXCEPT !.hist.fullTicks = @ + 1, !.log.phase = "full"]
            IN RunPeriodic(c5, w, gf, demand)

\* RunGF(gf, gfisnwf); bldPlanner->Update and ConstructionsExecuted work on the
\* planner's own state, which is not part of the model
RunGFStep(c0, w, gf, demand, ok) ==
    LET c == [c0 EXCEPT !.log = [NoLog EXCEPT !.gf = gf]]
    IN IF c.defeated THEN [c EXCEPT !.log.phase = "defeated"]
       ELSE IF TestDefeat(c, w)
       THEN LogCmd(LogCmd([c EXCEPT !.defeated = TRUE, !.log.phase = "surrender"],
                          <<"Surrender">>), <<"Chat">>)
       ELSE IF c.isInitGfCompleted < InitGfCalls
       THEN LET c1 == IF c.isInitGfCompleted = 0
                      THEN LogStep(LogStep(c, "InitStoreAndMilitarylists"),
                                   "InitDistribution")
                      ELSE c
            IN [c1 EXCEPT !.isInitGfCompleted = @ + 1, !.log.phase = "init"]
       ELSE LET c1 == IF gf = 100 /\ w.numMilitary = 0 /\ w.numStorehouses < 2
                      THEN LogCmd(c, <<"Chat">>) ELSE c
                c2 == FlushOutdatedBQ(c1, w)
                c3 == IF gf % 100 = 0 THEN LogPeriodic(c2, "UpdateBuildingsWanted") ELSE c2
                c4 == ExecuteAIJob(c3, w, ok)
                c5 == [c4 EXCEPT !.hist.fullTicks = @ + 1, !.log.phase = "full"]
            IN RunPeriodic(c5, w, gf, demand)

(***************************************************************************)
(* Goods distribution: DistributeGoodsByBlocking                           *)
(***************************************************************************)
\* aii.FindPathOnRoads(a, b): the two storehouses are on one road network
FindPathOnRoads(whs, a, b) == whs[a].net = whs[b].net

\* the reachability test that finds a path between any two storehouses
SameGroupAlways(whs, groups, i) == {g \in 1..Len(groups) : TRUE}

\* the groups whose first storehouse is connected to storehouse i
ConnectedGroups(whs, groups, i) ==
    {g \in 1..Len(groups) : FindPathOnRoads(whs, i, groups[g][1])}

RECURSIVE GroupByReachability(_, _, _)
\* whsByReachability: every storehouse joins the first group whose first member
\* it is connected to, else it opens a group
GroupByReachability(whs, groups, i) ==
    IF i > Len(whs) THEN groups
    ELSE LET hit == ConnectedGroups(whs, groups, i)
         IN IF hit = {}
            THEN GroupByReachability(whs, Append(groups, <<i>>), i + 1)
            ELSE LET g == CHOOSE x \in hit : \A y \in hit : x <= y
                 IN GroupByReachability(whs, [groups EXCEPT ![g] = Append(@, i)], i + 1)

\* the command that sets the Stop setting of storehouse i to stop, issued only
\* when the setting differs
SetStop(whs, i, stop) ==
    IF whs[i].stop # stop THEN <<[wh |-> i, stop |-> stop]>> ELSE <<>>

RECURSIVE FlattenSeq(_)
FlattenSeq(ss) == IF ss = <<>> THEN <<>> ELSE Head(ss) \o FlattenSeq(Tail(ss))

\* the group decision that blocks every storehouse once all hold more than the limit
GroupCommandsBlockFull(whs, grp, limit) ==
    LET allWHsHaveLimit == \A k \in 1..Len(grp) : ~(whs[grp[k]].wares <= limit)
    IN FlattenSeq([k \in 1..Len(grp) |->
                      SetStop(whs, grp[k], allWHsHaveLimit \/ ~(whs[grp[k]].wares <= limit))])

\* the commands for one group of connected storehouses
GroupCommands(whs, grp, limit) ==
    LET allWHsHaveLimit == \A k \in 1..Len(grp) : ~(whs[grp[k]].wares <= limit)
    IN IF allWHsHaveLimit
       THEN FlattenSeq([k \in 1..Len(grp) |-> SetStop(whs, grp[k], FALSE)])
       ELSE FlattenSeq([k \in 1..Len(grp) |->
                           SetStop(whs, grp[k], ~(whs[grp[k]].wares <= limit))])

\* the test that rounds the half of the storehouses up
UnblocksEverywhereRoundingUp(whs, numHarbors) == numHarbors >= (Len(whs) + 1) \div 2

\* line 733: the condition of the branch that unblocks everywhere and returns
UnblocksEverywhere(whs, numHarbors) == numHarbors >= Len(whs) \div 2

\* the SetInventorySetting commands of DistributeGoodsByBlocking(good, limit)
DistributeGoodsCommands(whs, numHarbors, limit) ==
    IF UnblocksEverywhere(whs, numHarbors)
    THEN FlattenSeq([i \in 1..Len(whs) |-> SetStop(whs, i, FALSE)])
    ELSE LET groups == GroupByReachability(whs, <<>>, 1)
         IN FlattenSeq([g \in 1..Len(groups) |-> GroupCommands(whs, groups[g], limit)])

RECURSIVE ApplyCommands(_, _)
\* the game carries out the commands
ApplyCommands(whs, cmds) ==
    IF cmds = <<>> THEN whs
    ELSE ApplyCommands([whs EXCEPT ![Head(cmds).wh].stop = Head(cmds).stop], Tail(cmds))

NoDistLog == [calls |-> 0, limit |-> 0, before |-> <<>>, cmds |-> <<>>, asserted |-> FALSE]

\* the value of the goods variables in a specification that does not use them
GoodsIdle ==
    /\ storehouses = <<>>
    /\ harbors = 0
    /\ distLog = NoDistLog

(***************************************************************************)
(* Resource map: AIResourceMap and FindBestPosition                        *)
(***************************************************************************)
\* MapPoint::Invalid()
InvalidPt == NumTiles

\* the value of a tile: the tiles with the resource on it and around it
CalcValue(res, pt) == Cardinality(Ball(pt, 1) \cap res)

\* AIResourceMap::init
ResInit(res) == [pt \in Tiles |-> CalcValue(res, pt)]

\* AIResourceMap::updateAround(pt, radius)
ResUpdateAround(rm, res, pt, radius) ==
    [t \in Tiles |-> IF t \in Ball(pt, radius) THEN CalcValue(res, t)
                     ELSE rm[t]]

\* the query that does not look at the avoided tiles
findBestPositionIgnoreAvoid(rm, avoid, map, pt, size, radius, minimum) ==
    LET cand == {t \in Ball(pt, radius) :
                    rm[t] >= minimum /\ map[t].bq >= size}
    IN IF cand = {} THEN InvalidPt
       ELSE CHOOSE t \in cand : \A u \in cand : rm[u] < rm[t] \/ (rm[u] = rm[t] /\ t <= u)

\* AIResourceMap::findBestPosition(pt, size, radius, minimum)
findBestPosition(rm, avoid, map, pt, size, radius, minimum) ==
    LET cand == {t \in Ball(pt, radius) :
                    rm[t] >= minimum /\ map[t].bq >= size /\ t \notin avoid}
    IN IF cand = {} THEN InvalidPt
       ELSE CHOOSE t \in cand : \A u \in cand : rm[u] < rm[t] \/ (rm[u] = rm[t] /\ t <= u)

\* AIResourceMap::avoidPosition(pt)
avoidPosition(avoid, pt) == avoid \cup {pt}

\* AIPlayerJH::FindBestPosition: the map and the returned position
FindBestPosition(rm, avoid, res, map, pt, size, radius, minimum) ==
    LET rm1 == ResUpdateAround(rm, res, pt, radius)
    IN [map |-> rm1, pos |-> findBestPosition(rm1, avoid, map, pt, size, radius, minimum)]

NoResLog == [op |-> "construct", pt |-> 0, size |-> 0, radius |-> 0, minimum |-> 0,
             result |-> 0, n |-> 0, type |-> "None", found |-> 0, valid |-> {}]

\* searchRadius of FindPositionForBuildingAround
SiteSearchRadius == 11
\* the minimum FindBestPosition takes when none is given
DefaultMinimum == 1
\* BUILDING_SIZE of a quarry and of a fishery: a hut
HutSize == 1

\* the minimum value a quarry's position needs: std::min(40u, 1 + numQuarries * 10)
QuarryMinimum(numQuarries) == Min(40, 1 + numQuarries * 10)

\* the search that gives up an unusable position but does not mark it
FindPositionForBuildingAroundForgets(rm, avoid, res, map, type, around, numQuarries, valid) ==
    LET minimum == IF type = "Quarry" THEN QuarryMinimum(numQuarries) ELSE DefaultMinimum
        r == FindBestPosition(rm, avoid, res, map, around, HutSize,
                              Min(SiteSearchRadius, WholeMapRadius), minimum)
    IN IF r.pos # InvalidPt /\ r.pos \notin valid
       THEN [map |-> r.map, avoid |-> avoid, found |-> r.pos, pos |-> InvalidPt]
       ELSE [map |-> r.map, avoid |-> avoid, found |-> r.pos, pos |-> r.pos]

\* the cases Quarry and Fishery of FindPositionForBuildingAround; valid: the
\* tiles for which ValidStoneinRange (ValidFishInRange) holds
FindPositionForBuildingAround(rm, avoid, res, map, type, around, numQuarries, valid) ==
    LET minimum == IF type = "Quarry" THEN QuarryMinimum(numQuarries) ELSE DefaultMinimum
        r == FindBestPosition(rm, avoid, res, map, around, HutSize,
                              Min(SiteSearchRadius, WholeMapRadius), minimum)
    IN IF r.pos # InvalidPt /\ r.pos \notin valid
       THEN [map |-> r.map, avoid |-> avoidPosition(avoid, r.pos), found |-> r.pos,
             pos |-> InvalidPt]
       ELSE [map |-> r.map, avoid |-> avoid, found |-> r.pos, pos |-> r.pos]

\* the value of the resource variables in a specification that does not use them
ResIdle ==
    /\ worldRes = {}
    /\ resourceMap = ResInit({})
    /\ avoided = {}
    /\ resLog = NoResLog

NoAttackLog == [called |-> FALSE, gathered |-> <<>>, strongholds |-> 0,
                candidates |-> <<>>, cmds |-> <<>>]

\* the value of the attack variables in a specification that does not use them
AttackIdle ==
    /\ milBlds = <<>>
    /\ targets = <<>>
    /\ attackLog = NoAttackLog

NoSeaLog == [called |-> FALSE, undefended |-> <<>>, potential |-> <<>>, cmds |-> <<>>,
             search |-> <<>>]

SeaIdle ==
    /\ numShips = 0
    /\ seaSoldiers = 0
    /\ harborPoints = <<>>
    /\ seaLog = NoSeaLog

\* the notification classes the constructor subscribes to
NoteClasses == {"BuildingNote", "ExpeditionNote", "ResourceNote", "RoadNote", "ShipNote",
                "NodeNote"}

\* the subscriptions made whatever the level
SubscribedAlways(lv) == NoteClasses

\* lines 190-212, reached unless the switch has thrown
Subscribed(lv) == IF lv \in Levels THEN NoteClasses ELSE {}

\* the constructor has run for a valid level
CtorDone ==
    /\ constructed = "yes"
    /\ intervals = <<AttackInterval(level), BuildInterval(level)>>
    /\ subscriptions = Subscribed(level)

NoNoteLog == [n |-> 0, class |-> "None", type |-> "None", player |-> 0]

\* the tile CalcResource is asked for: nothing below, nothing on it
NoTileRes == [subRes |-> "Nothing", surfRes |-> "Nothing", onRoad |-> FALSE, vital |-> FALSE]

CalcIdle == tileRes = NoTileRes /\ calcLog = "NotCalled"

\* the value of the remaining variables in a specification that does not use them
\* Resource(): nothing, amount 0
NoResource == [type |-> "Nothing", amount |-> 0]

NoGameResLog == [op |-> "Resource()", type |-> "Nothing", amount |-> 0, byte |-> 0,
                 copy |-> NoResource]

\* no road at all
NoRoadNet == [roads |-> {}, buildings |-> {}, owner |-> <<>>]

NoRoadLog == [called |-> FALSE, start |-> 0, excludeDir |-> 0, allowcircle |-> FALSE,
              keepstartflag |-> FALSE, ret |-> FALSE, cmds |-> <<>>, diverges |-> FALSE,
              handler |-> "none", enqueued |-> <<>>]

\* no heuristic called
NoHeurLog == [called |-> "none", cmds |-> <<>>]

\* no propagation running
NoFlood == [toCheck |-> <<>>, i |-> 1, penalty |-> <<>>, pushed |-> <<>>]

HeurIdle == heurWorld = <<>> /\ heurLog = NoHeurLog /\ flood = NoFlood

RestIdle ==
    /\ twinLog = NoAttackLog
    /\ gameRes = NoResource
    /\ gameResLog = NoGameResLog
    /\ roadNet = NoRoadNet
    /\ roadLog = NoRoadLog
    /\ HeurIdle

AuxIdle == AttackIdle /\ SeaIdle /\ CtorDone /\ noteLog = NoNoteLog /\ CalcIdle /\ RestIdle

(***************************************************************************)
(* Tick actions                                                            *)
(***************************************************************************)
\* the game frames at which RunGF is called in the model
GFs == {200}

RunGF(gf, demand, ok) ==
    /\ hist.fullTicks < MaxFullTicks
    /\ \E r \in {RunGFStep(Controller, World, gf, demand, ok)} :
          /\ r.hist.nextJobId <= MaxJobs + 1
          /\ isInitGfCompleted' = r.isInitGfCompleted
          /\ defeated' = r.defeated
          /\ eventQueue' = r.eventQueue
          /\ buildJobs' = r.buildJobs
          /\ connectJobs' = r.connectJobs
          /\ nodesWithOutdatedBQ' = r.nodesWithOutdatedBQ
          /\ aiMap' = r.aiMap
          /\ hist' = r.hist
          /\ tickLog' = r.log
    /\ UNCHANGED <<gridWorld, tickWorld, gridOp, goodsVars, resVars, auxVars>>

\* a notification for this player: the subscription callback adds one event
Notify(type, pt, bld) ==
    /\ eventQueue' = Append(eventQueue, [id |-> hist.nextEventId, type |-> type,
                                         pt |-> pt, bld |-> bld])
    /\ hist' = [hist EXCEPT !.nextEventId = @ + 1]
    /\ UNCHANGED <<gridWorld, tickWorld, aiMap, isInitGfCompleted, defeated, buildJobs,
                   connectJobs, nodesWithOutdatedBQ, gridOp, tickLog, goodsVars, resVars, auxVars>>

\* the building quality of a tile changes: the NodeNote callback records the tile
\* and its neighbours
NodeNoteBQ(pt, bq) ==
    /\ hist.nodeNotes < MaxNodeNotes
    /\ worldBQ[pt] # bq
    /\ worldBQ' = [worldBQ EXCEPT ![pt] = bq]
    /\ nodesWithOutdatedBQ' = nodesWithOutdatedBQ \o SetToSeq(Ball(pt, 1))
    /\ hist' = [hist EXCEPT !.nodeNotes = @ + 1]
    /\ UNCHANGED <<flagOwner, nodeOk, ownTerritory, flagBuilding, tickWorld, aiMap,
                   isInitGfCompleted, defeated, eventQueue, buildJobs, connectJobs,
                   gridOp, tickLog, goodsVars, resVars, auxVars>>

\* the value of the tick variables in a specification that does not use them
TickIdle ==
    /\ numStorehouses = 1
    /\ numMilitary = 0
    /\ playerId = 0
    /\ level = "Easy"
    /\ isInitGfCompleted = 0
    /\ defeated = FALSE
    /\ eventQueue = <<>>
    /\ buildJobs = <<>>
    /\ connectJobs = <<>>
    /\ nodesWithOutdatedBQ = <<>>
    /\ hist = NoHist
    /\ tickLog = NoLog

\* <<storehouses, military buildings>> of the factions the tick is run for
Factions == {<<0, 0>>, <<1, 0>>, <<21, 21>>}

\* after construction: nothing queued; an own flag with a building on tile 0
TickInit(factions) ==
    /\ flagOwner = [pt \in Tiles |-> IF pt = 0 THEN 1 ELSE 0]
    /\ nodeOk = Tiles
    /\ ownTerritory = Tiles
    /\ worldBQ = [pt \in Tiles |-> 0]
    /\ flagBuilding = {0}
    /\ buildingOn = [NoBuildings EXCEPT ![0] = "Woodcutter"]
    /\ luaWorld = NoLuaWorld
    /\ \E f \in factions : numStorehouses = f[1] /\ numMilitary = f[2]
    /\ playerId = 0
    /\ level = "Hard"
    /\ isInitGfCompleted = 0
    /\ defeated = FALSE
    /\ eventQueue = <<>>
    /\ buildJobs = <<>>
    /\ connectJobs = <<>>
    /\ nodesWithOutdatedBQ = <<>>
    /\ hist = NoHist
    /\ tickLog = NoLog
    /\ aiMap = InitNodes(World)
    /\ gridOp = NoGridOp
    /\ GoodsIdle
    /\ ResIdle
    /\ AuxIdle

Init == TickInit(Factions)

\* ticks, a few notifications of every kind, and changes of building quality
Next ==
    \/ \E gf \in GFs, demand \in 0..1, ok \in BOOLEAN : RunGF(gf, demand, ok)
    \/ /\ hist.nextEventId <= MaxTickEvents
       /\ \/ Notify("RoadConstructionFailed", 0, "Nothing")
          \/ Notify("BuildingFinished", 0, "Woodcutter")
    \/ \E bq \in 0..1 : NodeNoteBQ(0, bq)

Spec == Init /\ [][Next]_vars

\* ticks of one faction and a long burst of notifications of one kind
DrainInit == TickInit({<<1, 0>>})

DrainNext ==
    \/ \E gf \in GFs : RunGF(gf, 0, TRUE)
    \/ hist.nextEventId <= MaxEvents /\ Notify("BuildingFinished", 0, "Storehouse")

SpecDrain == DrainInit /\ [][DrainNext]_vars

(***************************************************************************)
(* Grid actions                                                            *)
(***************************************************************************)
\* UpdateNodesAround(pt, radius), as the event handlers and the planner call it
UpdateNodesAround(pt, radius) ==
    LET pts == GetPointsInRadius(pt, radius)
    IN /\ gridOp.n < MaxGridOps
       /\ aiMap' = UpdateNodesAroundMap(World, aiMap, pt, radius)
       /\ gridOp' = [op |-> "refresh", pt |-> pt, radius |-> radius,
                     ownerChanged |-> \E i \in 1..Len(pts) :
                                         aiMap[pts[i]].owned # IsOwnTerritory(World, pts[i]),
                     n |-> gridOp.n + 1]
       /\ UNCHANGED <<gridWorld, tickWorld, tickCtl, goodsVars, resVars, auxVars>>

NumFlags(f) == Cardinality({pt \in Tiles : f[pt] # 0})

\* the world: a tile changes its owner
WorldSetOwner(pt) ==
    /\ gridOp.n < MaxGridOps
    /\ ownTerritory' = IF pt \in ownTerritory THEN ownTerritory \ {pt}
                       ELSE ownTerritory \cup {pt}
    /\ Cardinality(Tiles \ ownTerritory') <= MaxForeign
    /\ gridOp' = [gridOp EXCEPT !.op = "world", !.n = @ + 1]
    /\ UNCHANGED <<flagOwner, nodeOk, worldBQ, flagBuilding, aiMap, tickWorld, tickCtl,
                   goodsVars, resVars, auxVars>>

\* every placement of at most MaxFlags flags and every set of road-feasible tiles;
\* the controller has just been constructed on it
GridInit ==
    /\ flagOwner \in [Tiles -> 0..2]
    /\ NumFlags(flagOwner) <= MaxFlags
    /\ nodeOk \in SUBSET Tiles
    /\ ownTerritory = Tiles
    /\ worldBQ = [pt \in Tiles |-> 0]
    /\ flagBuilding = {}
    /\ buildingOn = NoBuildings
    /\ luaWorld = NoLuaWorld
    /\ TickIdle
    /\ aiMap = InitNodes(World)
    /\ gridOp = NoGridOp
    /\ GoodsIdle
    /\ ResIdle
    /\ AuxIdle

GridNext ==
    \/ \E pt \in Tiles, radius \in 1..MaxRadius : UpdateNodesAround(pt, radius)
    \/ \E pt \in Tiles : WorldSetOwner(pt)

SpecGrid == GridInit /\ [][GridNext]_vars

(***************************************************************************)
(* Reachability as the flood defines it                                    *)
(***************************************************************************)
RECURSIVE Flood(_, _)
\* the least set that holds S and every IsNodeOk neighbour of one of its tiles
Flood(w, S) ==
    LET next == S \cup {q \in Tiles : IsNodeOk(w, q) /\ \E p \in S : q \in NeighbourSet(p)}
    IN IF next = S THEN S ELSE Flood(w, next)

OwnFlags == {pt \in Tiles : IsOwnFlag(World, pt)}

ReachableSet == {pt \in Tiles : aiMap[pt].reachable}

(***************************************************************************)
(* Claims on the node grid                                                 *)
(***************************************************************************)
(***************************************************************************)
(* Goods distribution actions                                              *)
(***************************************************************************)
\* the stocks and limits told apart: the calls of PlanNewBuildings use the
\* limits 30 (boards) and 50 (stones)
WareLevels == {29, 30, 31}
Limits == {30}

\* DistributeGoodsByBlocking(good, limit) and the game carrying out its commands
\* asserted: the call went past the early return to the RTTR_Assert of line 745
DistributeGoodsByBlocking(limit) ==
    /\ distLog.calls < MaxDistCalls
    /\ \E cmds \in {DistributeGoodsCommands(storehouses, harbors, limit)} :
          /\ storehouses' = ApplyCommands(storehouses, cmds)
          /\ distLog' = [calls |-> distLog.calls + 1, limit |-> limit,
                         before |-> storehouses, cmds |-> cmds,
                         asserted |-> ~UnblocksEverywhere(storehouses, harbors)]
    /\ UNCHANGED <<gridWorld, tickWorld, tickCtl, aiMap, gridOp, harbors, resVars, auxVars>>

Warehouse == [wares : WareLevels, stop : BOOLEAN, net : 1..2]

GoodsInit ==
    /\ flagOwner = [pt \in Tiles |-> IF pt = 0 THEN 1 ELSE 0]
    /\ nodeOk = Tiles
    /\ ownTerritory = Tiles
    /\ worldBQ = [pt \in Tiles |-> 0]
    /\ flagBuilding = {0}
    /\ buildingOn = NoBuildings
    /\ luaWorld = NoLuaWorld
    /\ \E n \in 0..MaxWarehouses :
          /\ storehouses \in [1..n -> Warehouse]
          /\ n > 0 => storehouses[1].net = 1
          /\ harbors \in 0..n
          /\ numStorehouses = n
    /\ numMilitary = 0
    /\ playerId = 0
    /\ level = "Hard"
    /\ isInitGfCompleted = 0
    /\ defeated = FALSE
    /\ eventQueue = <<>>
    /\ buildJobs = <<>>
    /\ connectJobs = <<>>
    /\ nodesWithOutdatedBQ = <<>>
    /\ hist = NoHist
    /\ tickLog = NoLog
    /\ aiMap = InitNodes(World)
    /\ gridOp = NoGridOp
    /\ distLog = NoDistLog
    /\ ResIdle
    /\ AuxIdle

GoodsNext == \E limit \in Limits : DistributeGoodsByBlocking(limit)

SpecGoods == GoodsInit /\ [][GoodsNext]_vars

(***************************************************************************)
(* Resource map actions                                                    *)
(***************************************************************************)
\* a handler or a site search tells the map to avoid a tile
AvoidPosition(pt) ==
    /\ resLog.n < MaxResOps
    /\ avoided' = avoidPosition(avoided, pt)
    /\ resLog' = [NoResLog EXCEPT !.op = "avoid", !.pt = pt, !.n = resLog.n + 1]
    /\ UNCHANGED <<gridWorld, tickWorld, tickCtl, aiMap, gridOp, goodsVars, resourceMap,
                   worldRes, auxVars>>

\* a site search asks for the best position
FindBestPositionCall(pt, size, radius, minimum) ==
    /\ resLog.n < MaxResOps
    /\ \E r \in {FindBestPosition(resourceMap, avoided, worldRes, aiMap, pt, size, radius,
                                  minimum)} :
          /\ resourceMap' = r.map
          /\ resLog' = [NoResLog EXCEPT !.op = "find", !.pt = pt, !.size = size,
                                        !.radius = radius, !.minimum = minimum,
                                        !.result = r.pos, !.n = resLog.n + 1]
    /\ UNCHANGED <<gridWorld, tickWorld, tickCtl, aiMap, gridOp, goodsVars, avoided,
                   worldRes, auxVars>>

\* the resource on a tile is used up
WorldResourceGone(pt) ==
    /\ resLog.n < MaxResOps
    /\ pt \in worldRes
    /\ worldRes' = worldRes \ {pt}
    /\ resLog' = [NoResLog EXCEPT !.op = "world", !.pt = pt, !.n = resLog.n + 1]
    /\ UNCHANGED <<gridWorld, tickWorld, tickCtl, aiMap, gridOp, goodsVars, resourceMap,
                   avoided, auxVars>>

ResMapInit ==
    /\ flagOwner = [pt \in Tiles |-> IF pt = 0 THEN 1 ELSE 0]
    /\ nodeOk = Tiles
    /\ ownTerritory = Tiles
    /\ \E huts \in {Tiles, Tiles \ {0}, {1}} :
          worldBQ = [pt \in Tiles |-> IF pt \in huts THEN 1 ELSE 0]
    /\ flagBuilding = {0}
    /\ buildingOn = NoBuildings
    /\ luaWorld = NoLuaWorld
    /\ TickIdle
    /\ aiMap = InitNodes(World)
    /\ gridOp = NoGridOp
    /\ GoodsIdle
    /\ worldRes \in {r \in SUBSET Tiles : Cardinality(r) <= MaxResTiles}
    /\ resourceMap = ResInit(worldRes)
    /\ avoided = {}
    /\ resLog = NoResLog
    /\ AuxIdle

ResMapNext ==
    \/ \E pt \in Tiles : AvoidPosition(pt)
    \/ \E pt \in Tiles, radius \in 0..MaxRadius, minimum \in 1..2 :
          FindBestPositionCall(pt, 1, radius, minimum)
    \/ \E pt \in Tiles : WorldResourceGone(pt)

SpecResMap == ResMapInit /\ [][ResMapNext]_vars

(***************************************************************************)
(* Land attack: TryToAttack                                                *)
(***************************************************************************)
\* the buildings checked per call when the faction has many
AttackSampleLimit == 40
\* what one own building adds to attackersStrength for the one soldier it sends
\* (nobMilitary::GetSoldiersStrengthForAttack)
SoldierStrength == 2

\* the elements of a set of indices 1..n in ascending order
SortedSeq(S, n) == SelectSeq([i \in 1..n |-> i], LAMBDA t : t \in S)

SeqRange(q) == {q[i] : i \in 1..Len(q)}

\* the candidate list with an undefended headquarters or harbor put last as well
AddTargetAtBack(acc, tg, t) == [acc EXCEPT !.list = Append(@, t)]

\* lines 1566-1572: an undefended headquarters or harbor goes to the front
AddTarget(acc, tg, t) ==
    IF tg[t].got # "NobMilitary" /\ ~tg[t].defenders
    THEN [list |-> <<t>> \o acc.list, hq |-> acc.hq + 1]
    ELSE [acc EXCEPT !.list = Append(@, t)]

RECURSIVE GatherAround(_, _, _, _)
\* the loop over the buildings LookForMilitaryBuildings(src, 2) returns; near: the
\* ones of them that are in attacking distance, attackable and visible
GatherAround(acc, tg, near, j) ==
    IF j > Len(near) THEN acc
    ELSE LET t == near[j]
         IN IF t \in SeqRange(acc.list) THEN GatherAround(acc, tg, near, j + 1)
            ELSE IF tg[t].got = "NobMilitary" /\ tg[t].newBuilt
            THEN GatherAround(acc, tg, near, j + 1)
            ELSE GatherAround(AddTarget(acc, tg, t), tg, near, j + 1)

RECURSIVE GatherTargets(_, _, _, _, _)
\* the loop over the own military buildings; skipped: the ones rand() passes over
GatherTargets(acc, own, tg, skipped, i) ==
    IF i > Len(own) THEN acc
    ELSE IF i \in skipped THEN GatherTargets(acc, own, tg, skipped, i + 1)
    ELSE GatherTargets(GatherAround(acc, tg, SortedSeq(own[i].near, Len(tg)), 1),
                       own, tg, skipped, i + 1)

\* the own buildings that send a soldier against target t
Attackers(own, t) == {i \in 1..Len(own) : t \in own[i].near /\ ~own[i].underAttack}

\* the test of a candidate without the comparison of the strengths
WorthAttackingAnyStrength(lv, target, attackersCount, attackersStrength) ==
    attackersCount # 0

\* lines 1605-1613
WorthAttacking(lv, target, attackersCount, attackersStrength) ==
    IF attackersCount = 0 THEN FALSE
    ELSE IF lv = "Hard" /\ target.got = "NobMilitary"
    THEN ~(attackersStrength <= target.strength \/ target.troops = 0)
    ELSE TRUE

RECURSIVE AttackCommands(_, _, _, _, _)
\* the loop over the candidates: the first one worth it is attacked
AttackCommands(lv, own, tg, candidates, k) ==
    IF k > Len(candidates) THEN <<>>
    ELSE LET t == candidates[k]
             attackersCount == Cardinality(Attackers(own, t))
         IN IF WorthAttacking(lv, tg[t], attackersCount, attackersCount * SoldierStrength)
            THEN << [cmd |-> "Attack", target |-> t, count |-> attackersCount] >>
            ELSE AttackCommands(lv, own, tg, candidates, k + 1)

\* the orders std::shuffle can leave a sequence in
Shuffles(q) ==
    {p \in [1..Len(q) -> SeqRange(q)] : \A i, j \in 1..Len(q) : i # j => p[i] # p[j]}

(***************************************************************************)
(* Land attack actions                                                     *)
(***************************************************************************)
\* what LookForMilitaryBuildings can return for another player: a military
\* building that is new, empty, weaker than or as strong as one attacker, and a
\* headquarters or harbor without and with defenders
TargetKinds ==
    {[got |-> "NobMilitary", newBuilt |-> TRUE, defenders |-> FALSE, troops |-> 0, strength |-> 0],
     [got |-> "NobMilitary", newBuilt |-> FALSE, defenders |-> FALSE, troops |-> 0, strength |-> 0],
     [got |-> "NobMilitary", newBuilt |-> FALSE, defenders |-> TRUE, troops |-> 1, strength |-> 1],
     [got |-> "NobMilitary", newBuilt |-> FALSE, defenders |-> TRUE, troops |-> 1, strength |-> 2],
     [got |-> "NobHQ", newBuilt |-> FALSE, defenders |-> FALSE, troops |-> 0, strength |-> 0],
     [got |-> "NobHQ", newBuilt |-> FALSE, defenders |-> TRUE, troops |-> 1, strength |-> 3]}

\* the own military buildings near the frontier, with the n targets around
OwnMilitary(n) == [underAttack : BOOLEAN, near : SUBSET (1..n)]

\* the own military buildings far from the frontier: none, or so many that rand()
\* can pass over a building
Inland == {0, AttackSampleLimit + 2}

AttackLevels == {"Easy", "Hard"}

\* TryToAttack: one call; skipped: the own buildings rand() passes over
TryToAttack(skipped) ==
    /\ ~attackLog.called
    /\ skipped \subseteq 1..Len(milBlds)
    /\ skipped # {} => numMilitary - 1 > AttackSampleLimit
    /\ \E g \in {GatherTargets([list |-> <<>>, hq |-> 0], milBlds, targets, skipped, 1)} :
       \E shuffled \in Shuffles(SubSeq(g.list, g.hq + 1, Len(g.list))) :
       \E candidates \in {SubSeq(g.list, 1, g.hq) \o shuffled} :
          attackLog' = [called |-> TRUE, gathered |-> g.list, strongholds |-> g.hq,
                        candidates |-> candidates,
                        cmds |-> AttackCommands(level, milBlds, targets, candidates, 1)]
    /\ UNCHANGED <<gridWorld, tickWorld, tickCtl, aiMap, gridOp, goodsVars, resVars,
                   milBlds, targets, seaVars, ctorVars, buildingOn, noteLog, calcVars, restVars>>

AttackInit ==
    /\ flagOwner = [pt \in Tiles |-> IF pt = 0 THEN 1 ELSE 0]
    /\ nodeOk = Tiles
    /\ ownTerritory = Tiles
    /\ worldBQ = [pt \in Tiles |-> 0]
    /\ flagBuilding = {0}
    /\ buildingOn = NoBuildings
    /\ luaWorld = NoLuaWorld
    /\ gridOp = NoGridOp
    /\ GoodsIdle
    /\ ResIdle
    /\ numStorehouses = 1
    /\ playerId = 0
    /\ isInitGfCompleted = 0
    /\ defeated = FALSE
    /\ eventQueue = <<>>
    /\ buildJobs = <<>>
    /\ connectJobs = <<>>
    /\ nodesWithOutdatedBQ = <<>>
    /\ hist = NoHist
    /\ tickLog = NoLog
    /\ attackLog = NoAttackLog
    /\ SeaIdle
    /\ noteLog = NoNoteLog
    /\ CalcIdle
    /\ RestIdle
    /\ level \in AttackLevels
    /\ CtorDone
    /\ numMilitary \in {m + inland : m \in 0..MaxOwnMil, inland \in Inland}
    /\ aiMap = InitNodes(World)
    /\ \E n \in 0..MaxTargets, m \in 0..MaxOwnMil :
          /\ numMilitary - m \in Inland
          /\ targets \in [1..n -> TargetKinds]
          /\ milBlds \in [1..m -> OwnMilitary(n)]
          /\ \A t \in 1..n : \E i \in 1..m : t \in milBlds[i].near

AttackNext == \E skipped \in SUBSET (1..MaxOwnMil) : TryToAttack(skipped)

SpecAttack == AttackInit /\ [][AttackNext]_vars

(***************************************************************************)
(* Sea attack: TrySeaAttack                                                *)
(***************************************************************************)
\* the harbor spots searched around per call
SearchLimit == 15

\* a target is <<i, 0>>, the harbor on harbor point i, or <<i, j>>, building j
\* of those LookForMilitaryBuildings finds around harbor point i
SeaTarget(points, id) ==
    IF id[2] = 0 THEN points[id[1]].harbor ELSE points[id[1]].around[id[2]]

\* lines 1659-1690: the loop over the harbor points; points holds the harbor
\* points 1 to GetNumHarborPoints(), and the loop runs while i < GetNumHarborPoints()
RECURSIVE ScanHarbors(_, _, _)
ScanHarbors(acc, points, i) ==
    IF ~(i < Len(points)) THEN acc
    ELSE LET hb == points[i].harbor
         IN IF hb.got = "NobHarbor"
            THEN IF hb.visible
                 THEN IF hb.attackable
                      THEN IF hb.coast
                           THEN IF ~hb.defenders
                                THEN ScanHarbors([acc EXCEPT !.undefended = Append(@, <<i, 0>>)],
                                                 points, i + 1)
                                ELSE ScanHarbors([acc EXCEPT !.potential = Append(@, <<i, 0>>)],
                                                 points, i + 1)
                           ELSE ScanHarbors(acc, points, i + 1)
                      ELSE ScanHarbors([acc EXCEPT !.search = Append(@, i)], points, i + 1)
                 ELSE ScanHarbors(acc, points, i + 1)
            ELSE ScanHarbors([acc EXCEPT !.search = Append(@, i)], points, i + 1)

\* the loop over the undefended targets left out
AttackUndefendedNever(points, undefended, k) == <<>>

\* the first loop's result: the attack on the first undefended target that
\* GetSoldiersForSeaAttack finds soldiers for
RECURSIVE AttackUndefended(_, _, _)
AttackUndefended(points, undefended, k) ==
    IF k > Len(undefended) THEN <<>>
    ELSE IF SeaTarget(points, undefended[k]).soldiers > 0
    THEN << [cmd |-> "SeaAttack", target |-> undefended[k], count |-> 1] >>
    ELSE AttackUndefended(points, undefended, k + 1)

\* lines 1716-1739: the buildings around one harbor spot
RECURSIVE LookAround(_, _, _, _)
LookAround(acc, points, i, j) ==
    IF j > Len(points[i].around) THEN acc
    ELSE LET milBld == points[i].around[j]
         IN IF milBld.attackable /\ milBld.visible
            THEN IF milBld.got = "NobMilitary" /\ milBld.newBuilt
                 THEN LookAround(acc, points, i, j + 1)
                 ELSE IF milBld.got # "NobMilitary" /\ ~milBld.defenders
                 THEN IF milBld.coast
                      THEN LookAround([acc EXCEPT !.undefended = Append(@, <<i, j>>)],
                                      points, i, j + 1)
                      ELSE LookAround(acc, points, i, j + 1)
                 ELSE LookAround([acc EXCEPT !.potential = Append(@, <<i, j>>)],
                                 points, i, j + 1)
            ELSE LookAround(acc, points, i, j + 1)

\* lines 1711-1740: the loop over the harbor spots to search around, from skip on
RECURSIVE SearchSpots(_, _, _, _)
SearchSpots(acc, points, i, limit) ==
    IF i > Len(acc.search) \/ limit = 0 THEN acc
    ELSE SearchSpots(LookAround(acc, points, acc.search[i], 1), points, i + 1, limit - 1)

\* the values rand() can give skip for n spots
Skips(n) ==
    IF n > SearchLimit
    THEN {(IF r * SearchLimit > 1 THEN r * SearchLimit ELSE 1) - 1 : r \in 0..(n \div SearchLimit)}
    ELSE {0}

\* the last loop's result: the attack on the first potential target in reach of
\* a sea with attackers that GetSoldiersForSeaAttack finds soldiers for
RECURSIVE AttackPotential(_, _, _)
AttackPotential(points, potential, k) ==
    IF k > Len(potential) THEN <<>>
    ELSE LET t == SeaTarget(points, potential[k])
         IN IF t.coast /\ t.soldiers > 0
            THEN << [cmd |-> "SeaAttack", target |-> potential[k], count |-> t.soldiers] >>
            ELSE AttackPotential(points, potential, k + 1)

(***************************************************************************)
(* Sea attack actions                                                      *)
(***************************************************************************)
NoBuilding == [got |-> "Nothing", visible |-> FALSE, attackable |-> FALSE, newBuilt |-> FALSE,
               defenders |-> FALSE, coast |-> FALSE, soldiers |-> 0]

\* got, newBuilt, defenders, coast, soldiers of a visible building of an enemy
Enemy(got, newBuilt, defenders, coast, soldiers) ==
    [got |-> got, visible |-> TRUE, attackable |-> TRUE, newBuilt |-> newBuilt,
     defenders |-> defenders, coast |-> coast, soldiers |-> soldiers]

\* what can stand on a harbor point: no harbor, the harbor of an ally, a harbor
\* out of sight, and a visible enemy harbor without or with defenders
HarborKinds ==
    {NoBuilding,
     [Enemy("NobHarbor", FALSE, FALSE, TRUE, 2) EXCEPT !.attackable = FALSE],
     [Enemy("NobHarbor", FALSE, FALSE, TRUE, 2) EXCEPT !.visible = FALSE],
     Enemy("NobHarbor", FALSE, FALSE, TRUE, 2),
     Enemy("NobHarbor", FALSE, FALSE, TRUE, 0),
     Enemy("NobHarbor", FALSE, FALSE, FALSE, 2),
     Enemy("NobHarbor", FALSE, TRUE, TRUE, 2)}

\* what LookForMilitaryBuildings can find around a harbor point
AroundKinds ==
    {[Enemy("NobMilitary", FALSE, TRUE, TRUE, 2) EXCEPT !.attackable = FALSE],
     Enemy("NobMilitary", TRUE, TRUE, TRUE, 2),
     Enemy("NobMilitary", FALSE, TRUE, TRUE, 2),
     Enemy("NobMilitary", FALSE, TRUE, TRUE, 0),
     Enemy("NobHQ", FALSE, FALSE, TRUE, 2),
     Enemy("NobHQ", FALSE, FALSE, FALSE, 2),
     Enemy("NobHQ", FALSE, TRUE, TRUE, 2)}

\* a harbor point; the buildings around matter where the code searches around
HarborPoint ==
    {[harbor |-> hb, around |-> <<>>] : hb \in HarborKinds}
    \cup {[harbor |-> hb, around |-> <<b>>] :
             hb \in {h \in HarborKinds : h.got = "Nothing" \/ ~h.attackable}, b \in AroundKinds}

\* TrySeaAttack: one call
TrySeaAttack ==
    /\ ~seaLog.called
    /\ IF numShips < 1 \/ harbors = 0 \/ seaSoldiers = 0
       THEN seaLog' = [NoSeaLog EXCEPT !.called = TRUE]
       ELSE \E scan \in {ScanHarbors([undefended |-> <<>>, potential |-> <<>>, search |-> <<>>],
                                     harborPoints, 1)} :
            \E first \in Shuffles(scan.undefended) :
               IF AttackUndefended(harborPoints, first, 1) # <<>>
               THEN seaLog' = [called |-> TRUE, undefended |-> first, potential |-> scan.potential,
                               cmds |-> AttackUndefended(harborPoints, first, 1),
                               search |-> scan.search]
               ELSE \E skip \in Skips(Len(scan.search)) :
                    \E all \in {SearchSpots([scan EXCEPT !.undefended = first], harborPoints,
                                            skip + 1, SearchLimit)} :
                    \E second \in Shuffles(all.undefended), potential \in Shuffles(all.potential) :
                       seaLog' = [called |-> TRUE, undefended |-> second, potential |-> potential,
                                  cmds |-> IF AttackUndefended(harborPoints, second, 1) # <<>>
                                           THEN AttackUndefended(harborPoints, second, 1)
                                           ELSE AttackPotential(harborPoints, potential, 1),
                                  search |-> scan.search]
    /\ UNCHANGED <<gridWorld, tickWorld, tickCtl, aiMap, gridOp, storehouses, harbors, distLog,
                   resVars, attackVars, numShips, seaSoldiers, harborPoints, ctorVars,
                   buildingOn, noteLog, calcVars, restVars>>

SeaInit ==
    /\ flagOwner = [pt \in Tiles |-> IF pt = 0 THEN 1 ELSE 0]
    /\ nodeOk = Tiles
    /\ ownTerritory = Tiles
    /\ worldBQ = [pt \in Tiles |-> 0]
    /\ flagBuilding = {0}
    /\ buildingOn = NoBuildings
    /\ luaWorld = NoLuaWorld
    /\ TickIdle
    /\ aiMap = InitNodes(World)
    /\ gridOp = NoGridOp
    /\ storehouses = <<>>
    /\ distLog = NoDistLog
    /\ ResIdle
    /\ AttackIdle
    /\ CtorDone
    /\ noteLog = NoNoteLog
    /\ CalcIdle
    /\ RestIdle
    /\ seaLog = NoSeaLog
    /\ harbors \in 0..1
    /\ numShips \in 0..MaxShips
    /\ seaSoldiers \in 0..1
    /\ \E n \in 0..MaxHarborPoints : harborPoints \in [1..n -> HarborPoint]

SeaNext == TrySeaAttack

SpecSea == SeaInit /\ [][SeaNext]_vars

(***************************************************************************)
(* Construction                                                            *)
(***************************************************************************)
\* a value of AI::Level that is none of the three
AnyLevel == Levels \cup {"Invalid"}

\* AIPlayerJH::AIPlayerJH
Construct ==
    /\ constructed = "no"
    /\ aiMap' = InitNodes(World)
    /\ resourceMap' = ResInit(worldRes)
    /\ IF level \in Levels
       THEN /\ intervals' = <<AttackInterval(level), BuildInterval(level)>>
            /\ constructed' = "yes"
       ELSE /\ intervals' = intervals
            /\ constructed' = "invalid_argument"
    /\ subscriptions' = Subscribed(level)
    /\ UNCHANGED <<gridWorld, tickWorld, tickCtl, gridOp, goodsVars, avoided, worldRes, resLog,
                   attackVars, seaVars, buildingOn, noteLog, calcVars, restVars>>

CtorInit ==
    /\ \E flags \in {f \in SUBSET Tiles : Cardinality(f) <= MaxFlags} :
          flagOwner = [pt \in Tiles |-> IF pt \in flags THEN 1 ELSE 0]
    /\ nodeOk = Tiles
    /\ ownTerritory = Tiles
    /\ worldBQ = [pt \in Tiles |-> 0]
    /\ flagBuilding = {}
    /\ buildingOn = NoBuildings
    /\ luaWorld = NoLuaWorld
    /\ numStorehouses = 1
    /\ numMilitary = 0
    /\ playerId \in 0..1
    /\ level \in AnyLevel
    /\ isInitGfCompleted = 0
    /\ defeated = FALSE
    /\ eventQueue = <<>>
    /\ buildJobs = <<>>
    /\ connectJobs = <<>>
    /\ nodesWithOutdatedBQ = <<>>
    /\ hist = NoHist
    /\ tickLog = NoLog
    /\ aiMap = BlankMap
    /\ gridOp = NoGridOp
    /\ GoodsIdle
    /\ worldRes = {}
    /\ resourceMap = [pt \in Tiles |-> 0]
    /\ avoided = {}
    /\ resLog = NoResLog
    /\ AttackIdle
    /\ SeaIdle
    /\ constructed = "no"
    /\ intervals = <<0, 0>>
    /\ subscriptions = {}
    /\ noteLog = NoNoteLog
    /\ CalcIdle
    /\ RestIdle

CtorNext == Construct

SpecCtor == CtorInit /\ [][CtorNext]_vars

(***************************************************************************)
(* Cadences of the tick                                                    *)
(***************************************************************************)
\* ticks on and off the cadences of 73 and 100 for the player ids 0, 1 and 2
CadenceGFs == {0, 39, 50, 56, 73, 100, 146, 200}

CadenceInit ==
    /\ flagOwner = [pt \in Tiles |-> IF pt = 0 THEN 1 ELSE 0]
    /\ nodeOk = Tiles
    /\ ownTerritory = Tiles
    /\ worldBQ = [pt \in Tiles |-> 0]
    /\ flagBuilding = {0}
    /\ buildingOn = NoBuildings
    /\ luaWorld = NoLuaWorld
    /\ numStorehouses \in 0..1
    /\ numMilitary = 0
    /\ playerId \in 0..MaxPlayerId
    /\ level \in Levels
    /\ isInitGfCompleted = 0
    /\ defeated = FALSE
    /\ eventQueue = <<>>
    /\ buildJobs = <<>>
    /\ connectJobs = <<>>
    /\ nodesWithOutdatedBQ = <<>>
    /\ hist = NoHist
    /\ tickLog = NoLog
    /\ aiMap = InitNodes(World)
    /\ gridOp = NoGridOp
    /\ GoodsIdle
    /\ ResIdle
    /\ AuxIdle

CadenceNext == \E gf \in CadenceGFs : RunGF(gf, 0, TRUE)

SpecCadence == CadenceInit /\ [][CadenceNext]_vars

(***************************************************************************)
(* Events about buildings that may be gone                                 *)
(***************************************************************************)
\* the building on a tile burns down or is torn down
BuildingDestroyed(pt) ==
    /\ buildingOn[pt] # "Nothing"
    /\ buildingOn' = [buildingOn EXCEPT ![pt] = "Nothing"]
    /\ UNCHANGED <<gridWorld, tickWorld, tickCtl, aiMap, gridOp, goodsVars, resVars,
                   attackVars, seaVars, ctorVars, noteLog, calcVars, restVars>>

HandlerInit ==
    /\ \E flags \in {{}, {1}} :
          /\ flagOwner = [pt \in Tiles |-> IF pt \in flags THEN 1 ELSE 0]
          /\ flagBuilding \in SUBSET flags
    /\ nodeOk = Tiles
    /\ ownTerritory = Tiles
    /\ worldBQ = [pt \in Tiles |-> 0]
    /\ buildingOn \in {[NoBuildings EXCEPT ![0] = b] : b \in {"Nothing", "Barracks", "Woodcutter"}}
    /\ luaWorld = NoLuaWorld
    /\ numStorehouses = 1
    /\ numMilitary = 1
    /\ playerId = 0
    /\ level = "Hard"
    /\ isInitGfCompleted = InitGfCalls
    /\ defeated = FALSE
    /\ eventQueue = <<>>
    /\ buildJobs = <<>>
    /\ connectJobs = <<>>
    /\ nodesWithOutdatedBQ = <<>>
    /\ hist = NoHist
    /\ tickLog = NoLog
    /\ aiMap = InitNodes(World)
    /\ gridOp = NoGridOp
    /\ GoodsIdle
    /\ ResIdle
    /\ AuxIdle

HandlerNext ==
    \/ RunGF(1, 0, TRUE)
    \/ /\ hist.nextEventId <= MaxTickEvents
       /\ \/ Notify("NewMilitaryBuildingOccupied", 0, "Barracks")
          \/ Notify("NoMoreResourcesReachable", 0, "Woodcutter")
          \/ Notify("BuildingFinished", 0, "Woodcutter")
          \/ Notify("RoadConstructionFailed", 1, "Nothing")
    \/ BuildingDestroyed(0)

SpecHandlers == HandlerInit /\ [][HandlerNext]_vars

(***************************************************************************)
(* Notifications: the callbacks the constructor subscribes                 *)
(***************************************************************************)
\* the types of the notes of each class
NoteTypes ==
    [BuildingNote |-> {"Constructed", "Destroyed", "Captured", "Lost", "LostLand",
                       "NoRessources", "LuaOrder"},
     ExpeditionNote |-> {"Waiting", "ColonyFounded"},
     ResourceNote |-> {"Found"},
     RoadNote |-> {"Constructed", "ConstructionFailed"},
     ShipNote |-> {"Constructed", "Destroyed", "Lost"}]

\* each handler gives the types of the events it adds
HandleBuildingNote(type) ==
    CASE type = "Constructed" -> <<"BuildingFinished">>
      [] type = "Destroyed" -> <<"BuildingDestroyed">>
      [] type = "Captured" -> <<"BuildingConquered">>
      [] type = "Lost" -> <<"BuildingLost">>
      [] type = "LostLand" -> <<"LostLand">>
      [] type = "NoRessources" -> <<"NoMoreResourcesReachable">>
      [] type = "LuaOrder" -> <<"LuaConstructionOrder">>
      [] OTHER -> <<>>

HandleExpeditionNote(type) ==
    CASE type = "Waiting" -> <<"ExpeditionWaiting">>
      [] type = "ColonyFounded" -> <<"NewColonyFounded">>
      [] OTHER -> <<>>

HandleResourceNote(type) == <<"ResourceFound">>

HandleRoadNote(type) ==
    CASE type = "Constructed" -> <<"RoadConstructionComplete">>
      [] type = "ConstructionFailed" -> <<"RoadConstructionFailed">>
      [] OTHER -> <<>>

\* the handler without the test of the type
HandleShipNoteAnyType(type) == <<"ShipBuilt">>

HandleShipNote(type) == IF type = "Constructed" THEN <<"ShipBuilt">> ELSE <<>>

\* lines 191-210: the subscribed lambdas
Callback(w, class, type, player) ==
    IF player # w.playerId THEN <<>>
    ELSE CASE class = "BuildingNote" -> HandleBuildingNote(type)
           [] class = "ExpeditionNote" -> HandleExpeditionNote(type)
           [] class = "ResourceNote" -> HandleResourceNote(type)
           [] class = "RoadNote" -> HandleRoadNote(type)
           [] class = "ShipNote" -> HandleShipNote(type)

\* the events of the given types for a tile and a building type
NewEvents(c, types, pt, bld) ==
    [i \in 1..Len(types) |-> [id |-> c.hist.nextEventId + i - 1, type |-> types[i],
                              pt |-> pt, bld |-> bld]]

\* the callback calling the handler of the event at once
AddAIEventsActing(c, w, evs) ==
    IF evs = <<>> THEN c
    ELSE HandleEvent([c EXCEPT !.hist.nextEventId = @ + Len(evs)], w, evs[1])

\* eventMgr.AddAIEvent for each of the events
AddAIEvents(c, w, evs) ==
    [c EXCEPT !.eventQueue = @ \o evs, !.hist.nextEventId = @ + Len(evs)]

\* lines 124-133: the radius around the node that is recorded
NodeNoteRadius(type) ==
    CASE type = "BQ" -> 1
      [] type = "Owner" -> 2
      [] OTHER -> 0

NodeNoteTypes == {"BQ", "Owner", "Altitude"}

\* recordBQsToUpdate: the points the callback records
RecordedPoints(type, pt) ==
    IF type \in {"BQ", "Owner"} THEN SetToSeq(Ball(pt, NodeNoteRadius(type))) ELSE <<>>

(***************************************************************************)
(* Notification actions                                                    *)
(***************************************************************************)
\* the world publishes a note of one of the five classes about a player
PublishNote(class, type, player, pt, bld) ==
    /\ noteLog.n < MaxNotes
    /\ \E r \in {AddAIEvents(Controller, World,
                             IF class \in subscriptions
                             THEN NewEvents(Controller, Callback(World, class, type, player),
                                            pt, bld)
                             ELSE <<>>)} :
          /\ isInitGfCompleted' = r.isInitGfCompleted
          /\ defeated' = r.defeated
          /\ eventQueue' = r.eventQueue
          /\ buildJobs' = r.buildJobs
          /\ connectJobs' = r.connectJobs
          /\ nodesWithOutdatedBQ' = r.nodesWithOutdatedBQ
          /\ aiMap' = r.aiMap
          /\ hist' = r.hist
          /\ tickLog' = r.log
    /\ noteLog' = [n |-> noteLog.n + 1, class |-> class, type |-> type, player |-> player]
    /\ UNCHANGED <<gridWorld, tickWorld, gridOp, goodsVars, resVars, attackVars, seaVars,
                   ctorVars, buildingOn, calcVars, restVars>>

\* the world publishes a NodeNote
PublishNodeNote(type, pt) ==
    /\ noteLog.n < MaxNotes
    /\ nodesWithOutdatedBQ' =
          nodesWithOutdatedBQ \o (IF "NodeNote" \in subscriptions
                                  THEN RecordedPoints(type, pt) ELSE <<>>)
    /\ noteLog' = [n |-> noteLog.n + 1, class |-> "NodeNote", type |-> type, player |-> 0]
    /\ UNCHANGED <<gridWorld, tickWorld, aiMap, isInitGfCompleted, defeated, eventQueue,
                   buildJobs, connectJobs, hist, tickLog, gridOp, goodsVars, resVars,
                   attackVars, seaVars, ctorVars, buildingOn, calcVars, restVars>>

NotesInit ==
    /\ flagOwner = [pt \in Tiles |-> IF pt = 1 THEN 1 ELSE 0]
    /\ nodeOk = Tiles
    /\ ownTerritory = Tiles
    /\ worldBQ = [pt \in Tiles |-> 0]
    /\ flagBuilding = {1}
    /\ buildingOn = [NoBuildings EXCEPT ![0] = "Woodcutter"]
    /\ luaWorld = NoLuaWorld
    /\ numStorehouses = 1
    /\ numMilitary = 0
    /\ playerId \in 0..1
    /\ level = "Hard"
    /\ isInitGfCompleted = InitGfCalls
    /\ defeated = FALSE
    /\ eventQueue = <<>>
    /\ buildJobs = <<>>
    /\ connectJobs = <<>>
    /\ nodesWithOutdatedBQ = <<>>
    /\ hist = NoHist
    /\ tickLog = NoLog
    /\ aiMap = InitNodes(World)
    /\ gridOp = NoGridOp
    /\ GoodsIdle
    /\ ResIdle
    /\ AuxIdle

NotesNext ==
    \/ \E class \in DOMAIN NoteTypes, player \in 0..1 :
          \E type \in NoteTypes[class] : PublishNote(class, type, player, 0, "Woodcutter")
    \/ \E type \in NodeNoteTypes : PublishNodeNote(type, 0)
    \/ RunGF(1, 0, TRUE)

SpecNotes == NotesInit /\ [][NotesNext]_vars

(***************************************************************************)
(* Resource class of a tile (CalcResource)                                 *)
(***************************************************************************)
\* AISubSurfaceResource and AISurfaceResource
SubSurfaceResources == {"Gold", "Ironore", "Coal", "Granite", "Fish", "Nothing"}
SurfaceResources == {"Wood", "Stones", "Blocked", "Nothing"}

\* the AINodeResource of a sub-surface or of a surface resource
convertToNodeResource(res) ==
    CASE res = "Gold" -> "Gold"
      [] res = "Ironore" -> "Ironore"
      [] res = "Coal" -> "Coal"
      [] res = "Granite" -> "Granite"
      [] res = "Fish" -> "Fish"
      [] res = "Wood" -> "Wood"
      [] res = "Stones" -> "Stones"
      [] res = "Blocked" -> "Blocked"
      [] res = "Nothing" -> "Nothing"

\* CalcResource with a blocked surface handled like a free one
CalcResourceBlockedIsFree(t) ==
    IF t.subRes = "Nothing"
    THEN IF t.surfRes = "Nothing"
         THEN IF t.onRoad THEN "Nothing"
              ELSE IF ~t.vital THEN "Nothing"
              ELSE "Plantspace"
         ELSE convertToNodeResource(t.surfRes)
    ELSE CASE t.surfRes \in {"Stones", "Wood"} -> "Multiple"
           [] t.surfRes \in {"Blocked", "Nothing"} -> convertToNodeResource(t.subRes)

\* t: what aii.GetSubsurfaceResource, aii.GetSurfaceResource, gwb.IsOnRoad and
\* gwb.IsOfTerrain(IsVital) give for the tile
CalcResource(t) ==
    IF t.subRes = "Nothing"
    THEN IF t.surfRes = "Nothing"
         THEN IF t.onRoad THEN "Nothing"
              ELSE IF ~t.vital THEN "Nothing"
              ELSE "Plantspace"
         ELSE convertToNodeResource(t.surfRes)
    ELSE CASE t.surfRes \in {"Stones", "Wood"} -> "Multiple"
           [] t.surfRes = "Blocked" -> "Nothing"
           [] t.surfRes = "Nothing" -> convertToNodeResource(t.subRes)

\* the controller classifies the tile
CalcResourceCall ==
    /\ calcLog' = CalcResource(tileRes)
    /\ UNCHANGED <<gridWorld, tickWorld, tickCtl, aiMap, gridOp, goodsVars, resVars,
                   attackVars, seaVars, ctorVars, buildingOn, noteLog, tileRes, restVars>>

CalcInit ==
    /\ flagOwner = [pt \in Tiles |-> 0]
    /\ nodeOk = Tiles
    /\ ownTerritory = Tiles
    /\ worldBQ = [pt \in Tiles |-> 0]
    /\ flagBuilding = {}
    /\ buildingOn = NoBuildings
    /\ luaWorld = NoLuaWorld
    /\ numStorehouses = 1
    /\ numMilitary = 0
    /\ playerId = 0
    /\ level = "Hard"
    /\ isInitGfCompleted = InitGfCalls
    /\ defeated = FALSE
    /\ eventQueue = <<>>
    /\ buildJobs = <<>>
    /\ connectJobs = <<>>
    /\ nodesWithOutdatedBQ = <<>>
    /\ hist = NoHist
    /\ tickLog = NoLog
    /\ aiMap = InitNodes(World)
    /\ gridOp = NoGridOp
    /\ GoodsIdle
    /\ ResIdle
    /\ AttackIdle /\ SeaIdle /\ CtorDone /\ noteLog = NoNoteLog
    /\ tileRes \in [subRes : SubSurfaceResources, surfRes : SurfaceResources,
                    onRoad : BOOLEAN, vital : BOOLEAN]
    /\ calcLog = "NotCalled"
    /\ RestIdle

CalcNext == CalcResourceCall

SpecCalc == CalcInit /\ [][CalcNext]_vars

(***************************************************************************)
(* Construction orders and the build-job queue                             *)
(***************************************************************************)
\* an initialised controller with two storehouses, so that a tick advances two jobs
OrdersInit ==
    /\ flagOwner = [pt \in Tiles |-> IF pt = 0 THEN 1 ELSE 0]
    /\ nodeOk = Tiles
    /\ ownTerritory = Tiles
    /\ worldBQ = [pt \in Tiles |-> 0]
    /\ flagBuilding = {0}
    /\ buildingOn = [NoBuildings EXCEPT ![0] = "Woodcutter"]
    /\ luaWorld \in [canBuild : BOOLEAN, wanted : BOOLEAN, forced : BOOLEAN]
    /\ numStorehouses \in 1..2
    /\ numMilitary = 0
    /\ playerId = 0
    /\ level = "Hard"
    /\ isInitGfCompleted = InitGfCalls
    /\ defeated = FALSE
    /\ eventQueue = <<>>
    /\ buildJobs = <<>>
    /\ connectJobs = <<>>
    /\ nodesWithOutdatedBQ = <<>>
    /\ hist = NoHist
    /\ tickLog = NoLog
    /\ aiMap = InitNodes(World)
    /\ gridOp = NoGridOp
    /\ GoodsIdle
    /\ ResIdle
    /\ AuxIdle

\* ticks with and without planning, and construction orders
OrdersNext ==
    \/ \E gf \in {1, 200}, ok \in BOOLEAN : RunGF(gf, 1, ok)
    \/ hist.nextEventId <= MaxTickEvents /\ Notify("LuaConstructionOrder", 1, "Sawmill")

SpecOrders == OrdersInit /\ [][OrdersNext]_vars

(***************************************************************************)
(* Connection jobs and flags that vanish                                   *)
(***************************************************************************)
\* the world: the flag on the tile is torn down
FlagRemoved(pt) ==
    /\ flagOwner[pt] # 0
    /\ flagOwner' = [flagOwner EXCEPT ![pt] = 0]
    /\ flagBuilding' = flagBuilding \ {pt}
    /\ UNCHANGED <<nodeOk, ownTerritory, worldBQ, tickWorld, tickCtl, aiMap, gridOp,
                   goodsVars, resVars, auxVars>>

\* an initialised controller; own flags of buildings on the tiles 0 and 1
ConnectInit ==
    /\ flagOwner = [pt \in Tiles |-> IF pt \in {0, 1} THEN 1 ELSE 0]
    /\ nodeOk = Tiles
    /\ ownTerritory = Tiles
    /\ worldBQ = [pt \in Tiles |-> 0]
    /\ flagBuilding = {0, 1}
    /\ buildingOn = NoBuildings
    /\ luaWorld = NoLuaWorld
    /\ numStorehouses = 1
    /\ numMilitary \in 0..1
    /\ playerId = 0
    /\ level = "Hard"
    /\ isInitGfCompleted = InitGfCalls
    /\ defeated = FALSE
    /\ eventQueue = <<>>
    /\ buildJobs = <<>>
    /\ connectJobs = <<>>
    /\ nodesWithOutdatedBQ = <<>>
    /\ hist = NoHist
    /\ tickLog = NoLog
    /\ aiMap = InitNodes(World)
    /\ gridOp = NoGridOp
    /\ GoodsIdle
    /\ ResIdle
    /\ AuxIdle

\* ticks, failed roads at the two flags, and the flags torn down
ConnectNext ==
    \/ \E gf \in {1, 200}, ok \in BOOLEAN : RunGF(gf, 0, ok)
    \/ \E pt \in 0..1 :
          hist.nextEventId <= MaxTickEvents /\ Notify("RoadConstructionFailed", pt, "Nothing")
    \/ \E pt \in 0..1 : FlagRemoved(pt)

SpecConnect == ConnectInit /\ [][ConnectNext]_vars

(***************************************************************************)
(* The flush of the nodes with outdated building quality                   *)
(***************************************************************************)
\* the world: the building quality of a tile changes and the NodeNote of it is
\* published; the callback records the tiles within radius 1
BQChanged(pt, bq) ==
    /\ noteLog.n < MaxNotes
    /\ worldBQ[pt] # bq
    /\ worldBQ' = [worldBQ EXCEPT ![pt] = bq]
    /\ nodesWithOutdatedBQ' = nodesWithOutdatedBQ \o RecordedPoints("BQ", pt)
    /\ noteLog' = [n |-> noteLog.n + 1, class |-> "NodeNote", type |-> "BQ", player |-> 0]
    /\ UNCHANGED <<flagOwner, nodeOk, ownTerritory, flagBuilding, tickWorld, aiMap,
                   isInitGfCompleted, defeated, eventQueue, buildJobs, connectJobs, hist,
                   tickLog, gridOp, goodsVars, resVars, attackVars, seaVars, ctorVars,
                   buildingOn, calcVars, restVars>>

\* a controller whose next tick is the last that only initialises
FlushInit ==
    /\ flagOwner = [pt \in Tiles |-> IF pt = 0 THEN 1 ELSE 0]
    /\ nodeOk = Tiles
    /\ ownTerritory = Tiles
    /\ \E b0, b1 \in 0..1 :
          worldBQ = [pt \in Tiles |-> IF pt = 0 THEN b0 ELSE IF pt = 1 THEN b1 ELSE 0]
    /\ flagBuilding = {0}
    /\ buildingOn = NoBuildings
    /\ luaWorld = NoLuaWorld
    /\ numStorehouses = 1
    /\ numMilitary = 0
    /\ playerId = 0
    /\ level = "Hard"
    /\ isInitGfCompleted = InitGfCalls - 1
    /\ defeated = FALSE
    /\ eventQueue = <<>>
    /\ buildJobs = <<>>
    /\ connectJobs = <<>>
    /\ nodesWithOutdatedBQ = <<>>
    /\ hist = NoHist
    /\ tickLog = NoLog
    /\ aiMap = InitNodes(World)
    /\ gridOp = NoGridOp
    /\ GoodsIdle
    /\ ResIdle
    /\ AuxIdle

FlushNext ==
    \/ RunGF(1, 0, TRUE)
    \/ \E pt \in 0..1, bq \in 0..1 : BQChanged(pt, bq)
    \/ PublishNodeNote("Owner", 0)

SpecFlush == FlushInit /\ [][FlushNext]_vars

(***************************************************************************)
(* Sites of quarries and fisheries                                         *)
(***************************************************************************)
\* a build job asks for the site of a quarry or of a fishery
FindPositionForBuildingAroundCall(type, around, numQuarries, valid) ==
    /\ resLog.n < MaxResOps
    /\ \E r \in {FindPositionForBuildingAround(resourceMap, avoided, worldRes, aiMap, type,
                                               around, numQuarries, valid)} :
          /\ resourceMap' = r.map
          /\ avoided' = r.avoid
          /\ resLog' = [NoResLog EXCEPT !.op = "site", !.pt = around, !.type = type,
                                        !.found = r.found, !.valid = valid,
                                        !.result = r.pos, !.n = resLog.n + 1]
    /\ UNCHANGED <<gridWorld, tickWorld, tickCtl, aiMap, gridOp, goodsVars, worldRes,
                   auxVars>>

\* the resource lies on some of the tiles 0 to 2; every tile or every tile but
\* tile 0 can take a hut
SiteInit ==
    /\ flagOwner = [pt \in Tiles |-> IF pt = 0 THEN 1 ELSE 0]
    /\ nodeOk = Tiles
    /\ ownTerritory = Tiles
    /\ \E huts \in {Tiles, Tiles \ {0}} :
          worldBQ = [pt \in Tiles |-> IF pt \in huts THEN 1 ELSE 0]
    /\ flagBuilding = {0}
    /\ buildingOn = NoBuildings
    /\ luaWorld = NoLuaWorld
    /\ TickIdle
    /\ aiMap = InitNodes(World)
    /\ gridOp = NoGridOp
    /\ GoodsIdle
    /\ worldRes \in {r \in SUBSET (0..2) : Cardinality(r) <= MaxResTiles}
    /\ resourceMap = ResInit(worldRes)
    /\ avoided = {}
    /\ resLog = NoResLog
    /\ AuxIdle

\* the sets of tiles around which stone (fish) can be reached
ValidSets == {{}, {0}, {1}, Tiles}

SiteNext ==
    \/ \E type \in {"Quarry", "Fishery"}, numQuarries \in 0..1, valid \in ValidSets :
          FindPositionForBuildingAroundCall(type, 0, numQuarries, valid)
    \/ \E pt \in 0..2 : WorldResourceGone(pt)

SpecSite == SiteInit /\ [][SiteNext]_vars

(***************************************************************************)
(* Two controllers in one world                                            *)
(***************************************************************************)
\* TryToAttack of a second controller, constructed with the same arguments, in
\* the same world: std::random_device seeds its shuffle, rand() its passes
TwinTryToAttack(skipped) ==
    /\ ~twinLog.called
    /\ skipped \subseteq 1..Len(milBlds)
    /\ skipped # {} => numMilitary - 1 > AttackSampleLimit
    /\ \E g \in {GatherTargets([list |-> <<>>, hq |-> 0], milBlds, targets, skipped, 1)} :
       \E shuffled \in Shuffles(SubSeq(g.list, g.hq + 1, Len(g.list))) :
       \E candidates \in {SubSeq(g.list, 1, g.hq) \o shuffled} :
          twinLog' = [called |-> TRUE, gathered |-> g.list, strongholds |-> g.hq,
                      candidates |-> candidates,
                      cmds |-> AttackCommands(level, milBlds, targets, candidates, 1)]
    /\ UNCHANGED <<gridWorld, tickWorld, tickCtl, aiMap, gridOp, goodsVars, resVars,
                   attackVars, seaVars, ctorVars, buildingOn, noteLog, calcVars, luaWorld,
                   gameVars, roadVars, heurVars>>

TwinInit == AttackInit

TwinNext ==
    \E skipped \in SUBSET (1..MaxOwnMil) : TryToAttack(skipped) \/ TwinTryToAttack(skipped)

SpecTwin == TwinInit /\ [][TwinNext]_vars

(***************************************************************************)
(* Game types: Resource                                                    *)
(***************************************************************************)
\* ResourceType, in the order of the enumeration
ResourceTypes == <<"Nothing", "Iron", "Gold", "Coal", "Granite", "Water", "Fish">>

\* the number of a type: its place in the enumeration, from 0
TypeNumber(type) == (CHOOSE i \in 1..Len(ResourceTypes) : ResourceTypes[i] = type) - 1

\* the greatest amount a Resource holds
MaxAmount == 15
\* a byte holds the type in its upper and the amount in its lower four bits
AmountRange == 16
Bytes == 0..255

\* an amount beyond the greatest is cut down to it, or loses its upper bits
StoredAmounts(amount) ==
    IF amount <= MaxAmount THEN {amount} ELSE {MaxAmount, amount % AmountRange}

\* Resource(type, amount)
NewResources(type, amount) ==
    IF type = "Nothing" THEN {NoResource}
    ELSE {[type |-> type, amount |-> a] : a \in StoredAmounts(amount)}

\* the byte with three bits for the amount
ToUInt8Narrow(r) == (TypeNumber(r.type) * 8 + r.amount) % 256

\* static_cast<uint8_t>(res), getValue()
ToUInt8(r) == TypeNumber(r.type) * AmountRange + r.amount

\* Resource(uint8_t): a value that names no type gives Resource()
FromUInt8(byte) ==
    IF byte \div AmountRange >= Len(ResourceTypes) THEN NoResource
    ELSE CHOOSE r \in NewResources(ResourceTypes[byte \div AmountRange + 1],
                                   byte % AmountRange) : TRUE

\* setType that keeps the amount whatever the type
SetTypeKeepsAmount(r, type) == [r EXCEPT !.type = type]

\* res.setType(type)
SetType(r, type) == IF type = "Nothing" THEN NoResource ELSE [r EXCEPT !.type = type]

\* res.setAmount(amount)
SetAmounts(r, amount) ==
    IF r.type = "Nothing" THEN {r}
    ELSE {[r EXCEPT !.amount = a] : a \in StoredAmounts(amount)}

\* res.has(type)
Has(r, type) == r.amount > 0 /\ r.type = type

ResourceOf(type, amount) ==
    /\ \E r \in NewResources(type, amount) : gameRes' = r
    /\ gameResLog' = [NoGameResLog EXCEPT !.op = "Resource(type, amount)", !.type = type,
                                          !.amount = amount]
    /\ UNCHANGED <<gridWorld, tickWorld, tickCtl, aiMap, gridOp, goodsVars, resVars,
                   attackVars, seaVars, ctorVars, buildingOn, noteLog, calcVars, luaWorld,
                   twinLog, roadVars, heurVars>>

ResourceFromValue(byte) ==
    /\ gameRes' = FromUInt8(byte)
    /\ gameResLog' = [NoGameResLog EXCEPT !.op = "Resource(value)", !.byte = byte]
    /\ UNCHANGED <<gridWorld, tickWorld, tickCtl, aiMap, gridOp, goodsVars, resVars,
                   attackVars, seaVars, ctorVars, buildingOn, noteLog, calcVars, luaWorld,
                   twinLog, roadVars, heurVars>>

SetTypeCall(type) ==
    /\ gameRes' = SetType(gameRes, type)
    /\ gameResLog' = [NoGameResLog EXCEPT !.op = "setType", !.type = type]
    /\ UNCHANGED <<gridWorld, tickWorld, tickCtl, aiMap, gridOp, goodsVars, resVars,
                   attackVars, seaVars, ctorVars, buildingOn, noteLog, calcVars, luaWorld,
                   twinLog, roadVars, heurVars>>

SetAmountCall(amount) ==
    /\ \E r \in SetAmounts(gameRes, amount) : gameRes' = r
    /\ gameResLog' = [NoGameResLog EXCEPT !.op = "setAmount", !.amount = amount]
    /\ UNCHANGED <<gridWorld, tickWorld, tickCtl, aiMap, gridOp, goodsVars, resVars,
                   attackVars, seaVars, ctorVars, buildingOn, noteLog, calcVars, luaWorld,
                   twinLog, roadVars, heurVars>>

\* const Resource res(type, amount); const Resource res2(static_cast<uint8_t>(res));
ConvertToFromUInt8(type, amount) ==
    /\ \E r \in NewResources(type, amount) :
          /\ gameRes' = r
          /\ gameResLog' = [op |-> "convert", type |-> type, amount |-> amount,
                            byte |-> ToUInt8(r), copy |-> FromUInt8(ToUInt8(r))]
    /\ UNCHANGED <<gridWorld, tickWorld, tickCtl, aiMap, gridOp, goodsVars, resVars,
                   attackVars, seaVars, ctorVars, buildingOn, noteLog, calcVars, luaWorld,
                   twinLog, roadVars, heurVars>>

\* Resource res;
ResourceInit ==
    /\ flagOwner = [pt \in Tiles |-> 0]
    /\ nodeOk = Tiles
    /\ ownTerritory = Tiles
    /\ worldBQ = [pt \in Tiles |-> 0]
    /\ flagBuilding = {}
    /\ buildingOn = NoBuildings
    /\ luaWorld = NoLuaWorld
    /\ TickIdle
    /\ aiMap = InitNodes(World)
    /\ gridOp = NoGridOp
    /\ GoodsIdle
    /\ ResIdle
    /\ AuxIdle

\* the greatest amount asked for
MaxAmountAsked == 17

ResourceNext ==
    \/ \E i \in 1..Len(ResourceTypes), amount \in 0..MaxAmountAsked :
          ResourceOf(ResourceTypes[i], amount)
    \/ \E byte \in Bytes : ResourceFromValue(byte)
    \/ \E i \in 1..Len(ResourceTypes) : SetTypeCall(ResourceTypes[i])
    \/ \E amount \in 0..MaxAmountAsked : SetAmountCall(amount)
    \/ \E i \in 1..Len(ResourceTypes), amount \in 1..MaxAmount :
          ConvertToFromUInt8(ResourceTypes[i], amount)

SpecResource == ResourceInit /\ [][ResourceNext]_vars

(***************************************************************************)
(* The first calls of RunGF and the defeat                                 *)
(***************************************************************************)
\* the last storehouse of the player is destroyed
StorehouseDestroyed ==
    /\ numStorehouses = 1
    /\ numStorehouses' = 0
    /\ UNCHANGED <<gridWorld, numMilitary, playerId, level, tickCtl, aiMap, gridOp,
                   goodsVars, resVars, auxVars>>

\* a controller with one storehouse or with none
DefeatInit == TickInit({<<0, 0>>, <<1, 0>>})

\* the game frames of the calls: one of the welcome chat, one of a plain tick
DefeatGFs == {100, 201}

DefeatNext ==
    \/ \E gf \in DefeatGFs, ok \in BOOLEAN : RunGF(gf, 1, ok)
    \/ /\ hist.nextEventId <= MaxTickEvents
       /\ \/ Notify("RoadConstructionFailed", 0, "Nothing")
          \/ Notify("BuildingFinished", 0, "Woodcutter")
    \/ \E bq \in 0..1 : NodeNoteBQ(0, bq)
    \/ StorehouseDestroyed

SpecDefeat == DefeatInit /\ [][DefeatNext]_vars

(***************************************************************************)
(* RemoveUnusedRoad.  A road joins two flags; at a flag the direction of a *)
(* road is named by the flag at its other end, and the directions are      *)
(* enumerated in the order of these flags.  The direction NorthWest of a   *)
(* flag leads to its building, if it has one.                              *)
(***************************************************************************)
\* most flags of the road network
MaxRoadFlags == 3
RoadFlags == 0..(MaxRoadFlags - 1)
AllRoads == {{a, b} : a, b \in RoadFlags} \ {{a} : a \in RoadFlags}
\* the directions that name no road: none (boost::none) and Direction::NorthWest
NoDir == MaxRoadFlags
NorthWest == MaxRoadFlags + 1

\* the length IsFlagPartofCircle is called with
CircleMaxLen == 10

\* the flags at the other end of the roads of flag f, in the order of the directions
Routes(net, f) ==
    SelectSeq([i \in 1..MaxRoadFlags |-> i - 1], LAMBDA g : g # f /\ {f, g} \in net.roads)

RECURSIVE IsFlagPartofCircle(_, _, _, _, _, _)
RECURSIVE CircleLoop(_, _, _, _, _, _, _)
\* the loop over the directions of curFlag; todo holds the directions still to test
CircleLoop(net, startFlag, maxlen, curFlag, excludeDir, oldFlags, todo) ==
    IF todo = <<>> THEN FALSE
    ELSE LET flag == Head(todo)
         IN IF flag = excludeDir \/ flag \in oldFlags
            THEN CircleLoop(net, startFlag, maxlen, curFlag, excludeDir, oldFlags, Tail(todo))
            ELSE IsFlagPartofCircle(net, startFlag, maxlen - 1, flag, curFlag,
                                    oldFlags \cup {flag})
                 \/ CircleLoop(net, startFlag, maxlen, curFlag, excludeDir,
                               oldFlags \cup {flag}, Tail(todo))

\* IsFlagPartofCircle(startFlag, maxlen, curFlag, excludeDir, oldFlags)
IsFlagPartofCircle(net, startFlag, maxlen, curFlag, excludeDir, oldFlags) ==
    IF oldFlags # {} /\ startFlag = curFlag THEN TRUE
    ELSE IF maxlen < 1 THEN FALSE
    ELSE CircleLoop(net, startFlag, maxlen, curFlag, excludeDir, oldFlags,
                    Routes(net, curFlag))

\* the result of a call: its return value, the commands it has issued, and
\* whether it calls itself again with the arguments of a call that has not yet
\* returned; the network being the same, such a call never returns
RoadResult(ret, cmds, diverges) == [ret |-> ret, cmds |-> cmds, diverges |-> diverges]

RECURSIVE RemoveUnusedRoad(_, _, _, _, _, _, _)
\* RemoveUnusedRoad(startFlag, excludeDir, firstflag, allowcircle, keepstartflag);
\* active holds the arguments of the calls that have not yet returned
RemoveUnusedRoad(net, startFlag, excludeDir, firstflag, allowcircle, keepstartflag, active) ==
    LET args == <<startFlag, excludeDir, firstflag, allowcircle, keepstartflag>>
        found == SelectSeq(Routes(net, startFlag), LAMBDA g : g # excludeDir)
        finds == Len(found)
        kill == IF keepstartflag
                THEN IF finds > 0 THEN <<<<"DestroyRoad", startFlag, found[1]>>>> ELSE <<>>
                ELSE <<<<"DestroyFlag", startFlag>>>>
    IN IF args \in active THEN RoadResult(FALSE, <<>>, TRUE)
       ELSE IF excludeDir # NorthWest /\ startFlag \in net.buildings
       THEN RoadResult(TRUE, <<>>, FALSE)
       ELSE IF finds > 2 THEN RoadResult(FALSE, <<>>, FALSE)
       ELSE IF finds = 2 /\ ~(/\ allowcircle
                              /\ IsFlagPartofCircle(net, startFlag, CircleMaxLen, startFlag,
                                                    NoDir, {})
                              /\ firstflag)
       THEN RoadResult(FALSE, <<>>, FALSE)
       ELSE IF finds = 0 THEN RoadResult(FALSE, kill, FALSE)
       ELSE LET r1 == RemoveUnusedRoad(net, found[1], startFlag, FALSE, TRUE, FALSE,
                                       active \cup {args})
            IN IF r1.diverges THEN RoadResult(FALSE, kill \o r1.cmds, TRUE)
               ELSE IF finds < 2 THEN RoadResult(FALSE, kill \o r1.cmds, FALSE)
               ELSE LET r2 == RemoveUnusedRoad(net, found[2], startFlag, FALSE, TRUE, FALSE,
                                               active \cup {args})
                    IN RoadResult(FALSE, kill \o r1.cmds \o r2.cmds, r2.diverges)

\* a call of RemoveUnusedRoad by one of the handlers; the commands go to the
\* game's command list and act on the world after the call
RemoveUnusedRoadCall(startFlag, excludeDir, allowcircle, keepstartflag) ==
    /\ \E r \in {RemoveUnusedRoad(roadNet, startFlag, excludeDir, TRUE, allowcircle,
                                  keepstartflag, {})} :
          roadLog' = [NoRoadLog EXCEPT !.called = TRUE, !.start = startFlag,
                                       !.excludeDir = excludeDir,
                                       !.allowcircle = allowcircle,
                                       !.keepstartflag = keepstartflag, !.ret = r.ret,
                                       !.cmds = r.cmds, !.diverges = r.diverges]
    /\ UNCHANGED <<gridWorld, tickWorld, tickCtl, aiMap, gridOp, goodsVars, resVars,
                   attackVars, seaVars, ctorVars, buildingOn, noteLog, calcVars, luaWorld,
                   twinLog, gameVars, roadNet, heurVars>>

\* any roads between the flags, any of the flags that of a building
RoadsInit ==
    /\ flagOwner = [pt \in Tiles |-> 0]
    /\ nodeOk = Tiles
    /\ ownTerritory = Tiles
    /\ worldBQ = [pt \in Tiles |-> 0]
    /\ flagBuilding = {}
    /\ buildingOn = NoBuildings
    /\ luaWorld = NoLuaWorld
    /\ TickIdle
    /\ aiMap = InitNodes(World)
    /\ gridOp = NoGridOp
    /\ GoodsIdle
    /\ ResIdle
    /\ AttackIdle /\ SeaIdle /\ CtorDone /\ noteLog = NoNoteLog /\ CalcIdle
    /\ twinLog = NoAttackLog /\ gameRes = NoResource /\ gameResLog = NoGameResLog
    /\ HeurIdle
    /\ \E roads \in SUBSET AllRoads, buildings \in SUBSET RoadFlags :
          roadNet = [roads |-> roads, buildings |-> buildings,
                     owner |-> [f \in RoadFlags |-> 1]]
    /\ roadLog = NoRoadLog

RoadsNext ==
    \E startFlag \in RoadFlags, excludeDir \in {NoDir, NorthWest},
       allowcircle \in BOOLEAN, keepstartflag \in BOOLEAN :
          RemoveUnusedRoadCall(startFlag, excludeDir, allowcircle, keepstartflag)

SpecRoads == RoadsInit /\ [][RoadsNext]_vars

\* HandleRoadConstructionFailed(pt, dir) in a world with roads: owner gives for
\* each flag 0 (no flag there), 1 (flag of this player) or 2 (flag of another
\* player); AddConnectFlagJob is recorded as the flag it is called with
RoadConstructionFailed(net, pt) ==
    IF net.owner[pt] = 0 THEN [cmds |-> <<>>, enqueued |-> <<>>, diverges |-> FALSE]
    ELSE IF net.owner[pt] # 1 THEN [cmds |-> <<>>, enqueued |-> <<>>, diverges |-> FALSE]
    ELSE LET r == RemoveUnusedRoad(net, pt, NoDir, TRUE, FALSE, FALSE, {})
         IN [cmds |-> r.cmds, enqueued |-> IF r.ret THEN <<pt>> ELSE <<>>,
             diverges |-> r.diverges]

RoadConstructionFailedCall(pt) ==
    /\ \E r \in {RoadConstructionFailed(roadNet, pt)} :
          roadLog' = [NoRoadLog EXCEPT !.handler = "RoadConstructionFailed", !.start = pt,
                                       !.cmds = r.cmds, !.enqueued = r.enqueued,
                                       !.diverges = r.diverges]
    /\ UNCHANGED <<gridWorld, tickWorld, tickCtl, aiMap, gridOp, goodsVars, resVars,
                   attackVars, seaVars, ctorVars, buildingOn, noteLog, calcVars, luaWorld,
                   twinLog, gameVars, roadNet, heurVars>>

\* the kinds of the first flag: none, own, of another player
FlagOwners == 0..2

\* the roads join flags that exist, a building has a flag; the flags other than
\* the first are own flags
RoadFailInit ==
    /\ flagOwner = [pt \in Tiles |-> 0]
    /\ nodeOk = Tiles
    /\ ownTerritory = Tiles
    /\ worldBQ = [pt \in Tiles |-> 0]
    /\ flagBuilding = {}
    /\ buildingOn = NoBuildings
    /\ luaWorld = NoLuaWorld
    /\ TickIdle
    /\ aiMap = InitNodes(World)
    /\ gridOp = NoGridOp
    /\ GoodsIdle
    /\ ResIdle
    /\ AttackIdle /\ SeaIdle /\ CtorDone /\ noteLog = NoNoteLog /\ CalcIdle
    /\ twinLog = NoAttackLog /\ gameRes = NoResource /\ gameResLog = NoGameResLog
    /\ HeurIdle
    /\ \E roads \in SUBSET AllRoads, buildings \in SUBSET RoadFlags, o \in FlagOwners :
          /\ o = 0 => 0 \notin buildings /\ \A r \in roads : 0 \notin r
          /\ roadNet = [roads |-> roads, buildings |-> buildings,
                        owner |-> [f \in RoadFlags |-> IF f = 0 THEN o ELSE 1]]
    /\ roadLog = NoRoadLog

RoadFailNext == \E pt \in RoadFlags : RoadConstructionFailedCall(pt)

SpecRoadFail == RoadFailInit /\ [][RoadFailNext]_vars

(***************************************************************************)
(* Single heuristics, each called in a world drawn from a bounded family   *)
(***************************************************************************)
\* what a call of a heuristic leaves alone
heurRest == <<gridWorld, tickWorld, tickCtl, aiMap, gridOp, goodsVars, resVars, attackVars,
              seaVars, ctorVars, buildingOn, noteLog, calcVars, luaWorld, twinLog, gameVars,
              roadVars, heurWorld, flood>>

\* the other subsystems at their idle value
HeurBase ==
    /\ flagOwner = [pt \in Tiles |-> 0]
    /\ nodeOk = Tiles
    /\ ownTerritory = Tiles
    /\ worldBQ = [pt \in Tiles |-> 0]
    /\ flagBuilding = {}
    /\ buildingOn = NoBuildings
    /\ luaWorld = NoLuaWorld
    /\ TickIdle
    /\ aiMap = InitNodes(World)
    /\ gridOp = NoGridOp
    /\ GoodsIdle
    /\ ResIdle
    /\ AttackIdle /\ SeaIdle /\ CtorDone /\ noteLog = NoNoteLog /\ CalcIdle
    /\ twinLog = NoAttackLog /\ gameRes = NoResource /\ gameResLog = NoGameResLog
    /\ roadNet = NoRoadNet /\ roadLog = NoRoadLog
    /\ heurLog = NoHeurLog
    /\ flood = NoFlood

\* ---- HandleExpedition(ship) ----
\* the greatest value of ShipDirection: North, NorthEast, SouthEast, South,
\* SouthWest, NorthWest are 0 to 5
MaxShipDirection == 5
ShipDirections == 0..MaxShipDirection

\* the directions tried, in their order, with the divisor m
DirectionsTried(offset, m) == [d \in 1..(MaxShipDirection + 1) |-> ((d - 1) + offset) % m]

\* HandleExpedition(ship); offset is rand() % MaxEnumValue_v<ShipDirection>
HandleExpedition(ship, offset) ==
    IF ~ship.waiting THEN <<>>
    ELSE IF ship.ableToFoundColony THEN <<<<"FoundColony">>>>
    ELSE LET tried == SelectSeq(DirectionsTried(offset, MaxShipDirection),
                                LAMBDA d : d \in ship.possible)
         IN IF tried # <<>> THEN <<<<"TravelToNextSpot", tried[1]>>>>
            ELSE <<<<"CancelExpedition">>>>

HandleExpeditionCall(offset) ==
    /\ heurLog' = [called |-> "HandleExpedition", cmds |-> HandleExpedition(heurWorld, offset)]
    /\ UNCHANGED heurRest

\* a ship: waiting for instructions or not, at a spot for a colony or not, with
\* any set of directions in which an exploration is possible
ExpeditionInit ==
    /\ HeurBase
    /\ \E waiting \in BOOLEAN, able \in BOOLEAN, possible \in SUBSET ShipDirections :
          heurWorld = [waiting |-> waiting, ableToFoundColony |-> able,
                       possible |-> possible]

ExpeditionNext == \E offset \in 0..(MaxShipDirection - 1) : HandleExpeditionCall(offset)

SpecExpedition == ExpeditionInit /\ [][ExpeditionNext]_vars

\* ---- TryToAttack: the own buildings searched from ----
\* most own military buildings
MaxMilBlds == 42

RECURSIVE SearchOrigins(_, _, _, _)
\* lines 1541-1550: the loop over the n own military buildings; rnd[i] is the
\* value of rand() for building i, far holds the inland buildings; the result
\* holds the buildings LookForMilitaryBuildings is called for
SearchOrigins(n, rnd, far, i) ==
    IF i > n THEN <<>>
    ELSE IF rnd[i] % n > AttackSampleLimit THEN SearchOrigins(n, rnd, far, i + 1)
    ELSE IF i \in far THEN SearchOrigins(n, rnd, far, i + 1)
    ELSE <<i>> \o SearchOrigins(n, rnd, far, i + 1)

\* what rand() gives for the buildings: small values, great values, or both in turn
RandFamilies(n) ==
    {[i \in 1..n |-> 0], [i \in 1..n |-> n - 1], [i \in 1..n |-> IF i % 2 = 0 THEN n - 1 ELSE i]}

SearchOriginsCall ==
    /\ heurLog.called = "none"
    /\ \E rnd \in RandFamilies(heurWorld.numMilBlds) :
          heurLog' = [called |-> "TryToAttack", cmds |-> <<>>,
                      origins |-> SearchOrigins(heurWorld.numMilBlds, rnd, heurWorld.far, 1)]
    /\ UNCHANGED heurRest

\* any number of own military buildings; none of them, every third or all but
\* the first inland
OriginsInit ==
    /\ HeurBase
    /\ \E n \in 0..MaxMilBlds :
       \E far \in {{}, {i \in 1..n : i % 3 = 0}, {i \in 1..n : i > 1}} :
          heurWorld = [numMilBlds |-> n, far |-> far]

OriginsNext == SearchOriginsCall

SpecOrigins == OriginsInit /\ [][OriginsNext]_vars

(***************************************************************************)
(* IterativeReachableNodeChecker step by step: one step is one round of    *)
(* the loop over the neighbours of the front of toCheck                    *)
(***************************************************************************)
\* the greatest failed penalty a tile starts with
MaxPenalty == 2

\* the tiles that can carry a penalty or be infeasible for a road
PenaltyTiles == {pt \in Tiles : 1 <= pt /\ pt <= MaxPenalty}

\* a step that leaves the front of toCheck where it is (no toCheck.pop())
CheckStepKeepsFront ==
    /\ flood.toCheck # <<>>
    /\ LET nbs == GetNeighbours(Head(flood.toCheck))
           last == flood.i = Len(nbs)
       IN \E r \in {CheckNeighbour(World, aiMap, flood.toCheck, nbs[flood.i])} :
             /\ aiMap' = r.map
             /\ flood' = [flood EXCEPT
                   !.toCheck = r.toCheck,
                   !.i = IF last THEN 1 ELSE flood.i + 1,
                   !.pushed = IF Len(r.toCheck) > Len(flood.toCheck)
                              THEN [@ EXCEPT ![r.toCheck[Len(r.toCheck)]] = @ + 1]
                              ELSE @]
    /\ UNCHANGED <<gridWorld, tickWorld, tickCtl, gridOp, goodsVars, resVars, attackVars,
                   seaVars, ctorVars, buildingOn, noteLog, calcVars, luaWorld, twinLog,
                   gameVars, roadVars, heurWorld, heurLog>>

\* lines 573-600: one round of the loop over the neighbours, with toCheck.pop()
\* after the last neighbour
CheckStep ==
    /\ flood.toCheck # <<>>
    /\ LET nbs == GetNeighbours(Head(flood.toCheck))
           last == flood.i = Len(nbs)
       IN \E r \in {CheckNeighbour(World, aiMap, flood.toCheck, nbs[flood.i])} :
             /\ aiMap' = r.map
             /\ flood' = [flood EXCEPT
                   !.toCheck = IF last THEN Tail(r.toCheck) ELSE r.toCheck,
                   !.i = IF last THEN 1 ELSE flood.i + 1,
                   !.pushed = IF Len(r.toCheck) > Len(flood.toCheck)
                              THEN [@ EXCEPT ![r.toCheck[Len(r.toCheck)]] = @ + 1]
                              ELSE @]
    /\ UNCHANGED <<gridWorld, tickWorld, tickCtl, gridOp, goodsVars, resVars, attackVars,
                   seaVars, ctorVars, buildingOn, noteLog, calcVars, luaWorld, twinLog,
                   gameVars, roadVars, heurWorld, heurLog>>

\* UpdateReachableNodes(pts) has filled toCheck: an own flag on tile 0 and
\* perhaps one on the last tile, some tiles infeasible for a road, and failed
\* penalties on some tiles
FloodInit ==
    /\ \E second \in BOOLEAN :
          flagOwner = [pt \in Tiles |-> IF pt = 0 \/ (second /\ pt = NumTiles - 1)
                                        THEN 1 ELSE 0]
    /\ \E bad \in SUBSET PenaltyTiles : nodeOk = Tiles \ bad
    /\ ownTerritory = Tiles
    /\ worldBQ = [pt \in Tiles |-> 0]
    /\ flagBuilding = {}
    /\ buildingOn = NoBuildings
    /\ luaWorld = NoLuaWorld
    /\ TickIdle
    /\ gridOp = NoGridOp
    /\ GoodsIdle
    /\ ResIdle
    /\ AttackIdle /\ SeaIdle /\ CtorDone /\ noteLog = NoNoteLog /\ CalcIdle
    /\ twinLog = NoAttackLog /\ gameRes = NoResource /\ gameResLog = NoGameResLog
    /\ roadNet = NoRoadNet /\ roadLog = NoRoadLog
    /\ heurWorld = <<>> /\ heurLog = NoHeurLog
    /\ \E penalty \in [PenaltyTiles -> 0..MaxPenalty], radius \in 1..MaxRadius :
       \E s \in {SeedNodes(World,
                           [pt \in Tiles |->
                               IF pt \in PenaltyTiles
                               THEN [InitNodes(World)[pt] EXCEPT !.failed_penalty = penalty[pt]]
                               ELSE InitNodes(World)[pt]],
                           <<>>, GetPointsInRadius(0, radius), 1, FALSE)} :
          /\ aiMap = s.map
          /\ flood = [toCheck |-> s.toCheck, i |-> 1,
                      penalty |-> [pt \in Tiles |-> s.map[pt].failed_penalty],
                      pushed |-> [pt \in Tiles |-> 0]]

FloodNext == CheckStep

SpecFlood == FloodInit /\ [][FloodNext]_vars

\* the loop goes on while toCheck is not empty
SpecFloodFair == SpecFlood /\ WF_vars(FloodNext)

(***************************************************************************)
(* The cached building quality where the site search reads it              *)
(***************************************************************************)
\* BuildingQuality::Harbor, above the sizes of the houses of the model
Harbor == 2

BuildingSizes == 1..Harbor

\* canUseBq(bq, size)
canUseBq(bq, size) == bq >= size

\* aii.isHarborPosClose(pt, 2, true)
isHarborPosClose(hw, pt) == pt \in hw.harborClose

RECURSIVE SimpleFindPositionFrom(_, _, _, _, _, _, _)
\* the loop of SimpleFindPosition from the i-th point on; asserted: the tiles
\* whose RTTR_Assert was evaluated so far, failed: those where it did not hold
SimpleFindPositionFrom(map, w, hw, pts, size, i, acc) ==
    IF i > Len(pts) THEN [acc EXCEPT !.pos = InvalidPt]
    ELSE LET curPt == pts[i]
         IN IF ~map[curPt].reachable \/ map[curPt].farmed \/ ~IsOwnTerritory(w, curPt)
            THEN SimpleFindPositionFrom(map, w, hw, pts, size, i + 1, acc)
            ELSE IF isHarborPosClose(hw, curPt) /\ size # Harbor
            THEN SimpleFindPositionFrom(map, w, hw, pts, size, i + 1, acc)
            ELSE LET a == [acc EXCEPT
                              !.asserted = @ \cup {curPt},
                              !.failed = IF GetBuildingQuality(w, curPt) = map[curPt].bq
                                         THEN @ ELSE @ \cup {curPt}]
                 IN IF canUseBq(GetBuildingQuality(w, curPt), size)
                    THEN [a EXCEPT !.pos = curPt]
                    ELSE SimpleFindPositionFrom(map, w, hw, pts, size, i + 1, a)

NoInspection == [pos |-> InvalidPt, asserted |-> {}, failed |-> {}]

SimpleFindPosition(map, w, hw, pt, size, radius) ==
    SimpleFindPositionFrom(map, w, hw, GetPointsInRadius(pt, radius), size, 1, NoInspection)

\* lines 2199-2208 of BQsurroundcheck: the assertion on pt and the count of pt
\* itself (the tiles around are read from the world only)
BQsurroundcheck(map, w, pt) ==
    [pos |-> pt, asserted |-> {pt},
     failed |-> IF GetBuildingQuality(w, pt) = map[pt].bq THEN {} ELSE {pt},
     count |-> IF GetBuildingQuality(w, pt) >= 1 THEN 1 ELSE 0]

\* the node grid the jobs and the planner of a full tick read: after the flush of
\* the recorded tiles and after the event handlers
JobTimeMap(c, w) == DrainEventQueue(FlushOutdatedBQ(c, w), w).aiMap

\* a tick whose jobs search a site around pt and whose planner rates pt
RunGFInspecting(gf, pt, size, radius) ==
    /\ hist.fullTicks < MaxFullTicks
    /\ \E r \in {RunGFStep(Controller, World, gf, 0, TRUE)} :
          /\ r.hist.nextJobId <= MaxJobs + 1
          /\ isInitGfCompleted' = r.isInitGfCompleted
          /\ defeated' = r.defeated
          /\ eventQueue' = r.eventQueue
          /\ buildJobs' = r.buildJobs
          /\ connectJobs' = r.connectJobs
          /\ nodesWithOutdatedBQ' = r.nodesWithOutdatedBQ
          /\ aiMap' = r.aiMap
          /\ hist' = r.hist
          /\ tickLog' = r.log
          /\ heurLog' =
                IF r.log.phase = "full"
                THEN [called |-> "inspect", cmds |-> <<>>,
                      site |-> SimpleFindPosition(JobTimeMap(Controller, World), World,
                                                  heurWorld, pt, size, radius),
                      rated |-> BQsurroundcheck(JobTimeMap(Controller, World), World, pt)]
                ELSE [called |-> "inspect", cmds |-> <<>>,
                      site |-> NoInspection, rated |-> NoInspection]
    /\ UNCHANGED <<gridWorld, tickWorld, gridOp, goodsVars, resVars, attackVars, seaVars,
                   ctorVars, buildingOn, noteLog, calcVars, luaWorld, twinLog, gameVars,
                   roadVars, heurWorld, flood>>

\* the controller of FlushInit; some tiles may lie close to a harbor position
InspectInit ==
    /\ flagOwner = [pt \in Tiles |-> IF pt = 0 THEN 1 ELSE 0]
    /\ nodeOk = Tiles
    /\ \E foreign \in {{}, {MapWidth}} : ownTerritory = Tiles \ foreign
    /\ \E b0, b1 \in 0..1 :
          worldBQ = [pt \in Tiles |-> IF pt = 0 THEN b0 ELSE IF pt = 1 THEN b1 ELSE 0]
    /\ flagBuilding = {0}
    /\ buildingOn = NoBuildings
    /\ luaWorld = NoLuaWorld
    /\ numStorehouses = 1
    /\ numMilitary = 0
    /\ playerId = 0
    /\ level = "Hard"
    /\ isInitGfCompleted = InitGfCalls - 1
    /\ defeated = FALSE
    /\ eventQueue = <<>>
    /\ buildJobs = <<>>
    /\ connectJobs = <<>>
    /\ nodesWithOutdatedBQ = <<>>
    /\ hist = NoHist
    /\ tickLog = NoLog
    /\ aiMap = InitNodes(World)
    /\ gridOp = NoGridOp
    /\ GoodsIdle
    /\ ResIdle
    /\ AttackIdle /\ SeaIdle /\ CtorDone /\ noteLog = NoNoteLog /\ CalcIdle
    /\ twinLog = NoAttackLog /\ gameRes = NoResource /\ gameResLog = NoGameResLog
    /\ roadNet = NoRoadNet /\ roadLog = NoRoadLog
    /\ \E hc \in {{}, {1}} : heurWorld = [harborClose |-> hc]
    /\ heurLog = NoHeurLog
    /\ flood = NoFlood

InspectNext ==
    \/ \E pt \in 0..1, size \in BuildingSizes, radius \in 0..MaxRadius :
          RunGFInspecting(1, pt, size, radius)
    \/ \E pt \in 0..1, bq \in 0..Harbor : BQChanged(pt, bq)
    \/ PublishNodeNote("Owner", 0)

SpecInspect == InspectInit /\ [][InspectNext]_vars

(***************************************************************************)
(* SetGatheringForUpgradeWarehouse                                         *)
(***************************************************************************)
\* the goods and jobs whose gathering the function sets, in its order
GatheredItems == <<"Beer", "Sword", "ShieldRomans", "Private", "Helper">>

GatheredSet == {GatheredItems[k] : k \in 1..Len(GatheredItems)}

\* InventorySetting(): no flag set; EInventorySetting::Collect alone; Stop alone
NoSetting == {}
CollectSetting == {"Collect"}
StopSetting == {"Stop"}

\* wh->IsInventorySetting(item, EInventorySetting::Collect)
IsCollecting(wh, item) == "Collect" \in wh.setting[item]

\* the helpers from which on the upgrade warehouse stops collecting them
HelperLimit == 50

\* one aii.SetInventorySetting(whPos, item, setting), issued when cond holds
SettingCommand(cond, i, item, setting) ==
    IF cond THEN <<[wh |-> i, item |-> item, setting |-> setting]>> ELSE <<>>

\* the branch for the other storehouses that leaves their settings alone
StopGatheringNever(wh, i) == <<>>

\* lines 466-482: a storehouse that is not the upgrade warehouse
StopGathering(wh, i) ==
    FlattenSeq([k \in 1..Len(GatheredItems) |->
                   SettingCommand(IsCollecting(wh, GatheredItems[k]), i, GatheredItems[k],
                                  NoSetting)])

\* lines 483-510: the upgrade warehouse
StartGathering(wh, i, maxRank) ==
    SettingCommand(~IsCollecting(wh, "Beer"), i, "Beer", CollectSetting)
    \o SettingCommand(~IsCollecting(wh, "Sword"), i, "Sword", CollectSetting)
    \o SettingCommand(~IsCollecting(wh, "ShieldRomans"), i, "ShieldRomans", CollectSetting)
    \o SettingCommand(~IsCollecting(wh, "Private") /\ maxRank > 0, i, "Private",
                      CollectSetting)
    \o (IF wh.helpers < HelperLimit
        THEN SettingCommand(~IsCollecting(wh, "Helper"), i, "Helper", CollectSetting)
        ELSE SettingCommand(IsCollecting(wh, "Helper"), i, "Helper", NoSetting))

\* SetGatheringForUpgradeWarehouse(upgradewarehouse): the commands it issues;
\* the storehouses are told apart by their position, which is their index here
SetGatheringForUpgradeWarehouse(whs, upgradewarehouse, maxRank) ==
    FlattenSeq([i \in 1..Len(whs) |->
                   IF upgradewarehouse # i
                   THEN StopGathering(whs[i], i)
                   ELSE StartGathering(whs[i], i, maxRank)])

RECURSIVE ApplySettings(_, _)
\* the game carries out the SetInventorySetting commands: the setting of the
\* item becomes the one of the command
ApplySettings(whs, cmds) ==
    IF cmds = <<>> THEN whs
    ELSE ApplySettings([whs EXCEPT ![Head(cmds).wh].setting[Head(cmds).item] =
                                       Head(cmds).setting],
                       Tail(cmds))

\* the planning calls SetGatheringForUpgradeWarehouse and the game carries out
\* the commands
SetGatheringCall ==
    /\ heurLog.called = "none"
    /\ \E cmds \in {SetGatheringForUpgradeWarehouse(heurWorld.whs, heurWorld.upgrade,
                                                    heurWorld.maxRank)} :
          heurLog' = [called |-> "SetGathering", cmds |-> cmds,
                      whs |-> ApplySettings(heurWorld.whs, cmds)]
    /\ UNCHANGED heurRest

\* the settings a storehouse starts with: nothing set, everything collected,
\* everything stopped, the soldiers' goods collected and the people stopped
GatherPatterns ==
    {[item \in GatheredSet |-> NoSetting],
     [item \in GatheredSet |-> CollectSetting],
     [item \in GatheredSet |-> StopSetting],
     [item \in GatheredSet |->
         IF item \in {"Private", "Helper"} THEN StopSetting ELSE CollectSetting],
     [item \in GatheredSet |->
         IF item \in {"Private", "Helper"} THEN CollectSetting ELSE NoSetting]}

\* one to MaxWarehouses storehouses, one of them the upgrade warehouse
GatheringInit ==
    /\ HeurBase
    /\ \E n \in 1..MaxWarehouses :
       \E whs \in [1..n -> [setting : GatherPatterns,
                            helpers : {HelperLimit - 1, HelperLimit}]] :
       \E up \in 1..n, maxRank \in 0..1 :
          heurWorld = [whs |-> whs, upgrade |-> up, maxRank |-> maxRank]

GatheringNext == SetGatheringCall

SpecGathering == GatheringInit /\ [][GatheringNext]_vars

(***************************************************************************)
(* The upgrade building and the demolition of PlanNewBuildings             *)
(***************************************************************************)
\* the most military buildings of the player
MaxUpgradeBlds == 3

\* lines 2067-2068: an inland watchtower or fortress
IsUpgradeCandidate(milBld) ==
    milBld.type \in {"Watchtower", "Fortress"} /\ milBld.far

RECURSIVE UpdateUpgradeBuildingCountsCandidates(_, _, _, _)
\* the search whose count goes up for the inland towers and fortresses only
UpdateUpgradeBuildingCountsCandidates(mil, i, count, backup) ==
    IF i > Len(mil) THEN [ret |-> -1, UpgradeBldPos |-> InvalidPt, connect |-> backup]
    ELSE IF IsUpgradeCandidate(mil[i])
    THEN IF mil[i].connected
         THEN [ret |-> count, UpgradeBldPos |-> i, connect |-> <<>>]
         ELSE UpdateUpgradeBuildingCountsCandidates(mil, i + 1, count + 1, Append(backup, i))
    ELSE UpdateUpgradeBuildingCountsCandidates(mil, i + 1, count, backup)

RECURSIVE UpgradeSearch(_, _, _, _)
\* lines 2062-2078: the loop over aii.GetMilitaryBuildings() from the i-th on;
\* the position of a building is its place in the list
UpgradeSearch(mil, i, count, backup) ==
    IF i > Len(mil) THEN [ret |-> -1, UpgradeBldPos |-> InvalidPt, connect |-> backup]
    ELSE IF IsUpgradeCandidate(mil[i])
    THEN IF mil[i].connected
         THEN [ret |-> count, UpgradeBldPos |-> i, connect |-> <<>>]
         ELSE UpgradeSearch(mil, i + 1, count + 1, Append(backup, i))
    ELSE UpgradeSearch(mil, i + 1, count + 1, backup)

\* UpdateUpgradeBuilding(): the list slot of the upgrade building or -1, the
\* value of UpgradeBldPos and the flags that get a connection job
UpdateUpgradeBuilding(hw) ==
    IF hw.numStorehouses > 0 THEN UpgradeSearch(hw.mil, 1, 0, <<>>)
    ELSE [ret |-> -1, UpgradeBldPos |-> InvalidPt, connect |-> <<>>]

\* lines 367-385 of PlanNewBuildings as far as the demolition goes;
\* randomMiliBld is rand() % militaryBuildings.size()
PlanDemolition(hw, randomMiliBld) ==
    IF hw.mil = <<>> THEN [cmds |-> <<>>, asked |-> FALSE]
    ELSE LET it2 == hw.mil[randomMiliBld + 1]
         IN IF it2.useless /\ it2.demolitionAllowed
            THEN [cmds |-> IF randomMiliBld # UpdateUpgradeBuilding(hw).ret
                           THEN << <<"DestroyBuilding", randomMiliBld + 1>> >>
                           ELSE <<>>,
                  asked |-> TRUE]
            ELSE [cmds |-> <<>>, asked |-> FALSE]

\* the planning picks a military building
PlanDemolitionCall ==
    /\ heurLog.called = "none"
    /\ \E randomMiliBld \in 0..(IF heurWorld.mil = <<>> THEN 0 ELSE Len(heurWorld.mil) - 1) :
       \E r \in {PlanDemolition(heurWorld, randomMiliBld)} :
          heurLog' = [called |-> "PlanNewBuildings", cmds |-> r.cmds, asked |-> r.asked,
                      picked |-> randomMiliBld + 1]
    /\ UNCHANGED heurRest

\* the kinds of military building told apart
MilKinds ==
    {[type |-> "Barracks", far |-> TRUE, connected |-> TRUE],
     [type |-> "Watchtower", far |-> TRUE, connected |-> TRUE],
     [type |-> "Fortress", far |-> TRUE, connected |-> FALSE],
     [type |-> "Watchtower", far |-> FALSE, connected |-> TRUE]}

\* up to MaxUpgradeBlds military buildings, with or without a storehouse
DemolitionInit ==
    /\ HeurBase
    /\ \E n \in 0..MaxUpgradeBlds :
       \E kind \in [1..n -> MilKinds], useless \in [1..n -> BOOLEAN],
          allowed \in [1..n -> BOOLEAN], stores \in 0..1 :
          heurWorld = [mil |-> [i \in 1..n |->
                                   [type |-> kind[i].type, far |-> kind[i].far,
                                    connected |-> kind[i].connected,
                                    useless |-> useless[i],
                                    demolitionAllowed |-> allowed[i]]],
                       numStorehouses |-> stores]

DemolitionNext == PlanDemolitionCall

SpecDemolition == DemolitionInit /\ [][DemolitionNext]_vars

Range(q) == {q[i] : i \in 1..Len(q)}

\* a RunGF call took place in this step
TickCall == tickLog' # tickLog \/ hist'.fullTicks # hist.fullTicks

\* C1: one tick dispatches at most 10 events, and leaves events behind only when
\* it has dispatched 10; every event enqueued so far has either been dispatched
\* exactly once or is still queued (none lost, none dispatched twice).
DrainKeepsEveryEvent ==
    /\ Len(tickLog.dispatched) <= 10
    /\ tickLog.eventsLeft # <<>> => Len(tickLog.dispatched) = 10
    /\ Range(hist.dispatched) \cup Range(EventIds(eventQueue)) = 1..(hist.nextEventId - 1)
    /\ Len(hist.dispatched) + Len(eventQueue) = hist.nextEventId - 1

\* C1 witness: a tick that found more than 10 events, dispatched 10 and left the rest
DrainLeavesBacklog ==
    /\ tickLog.phase = "full"
    /\ Len(tickLog.eventsBefore) > 10
    /\ Len(tickLog.dispatched) = 10
    /\ tickLog.eventsLeft # <<>>
    /\ hist.fullTicks = 1

\* C2: events are dispatched in the order they were enqueued, within a tick and
\* across ticks; a drain that finds 5 events dispatches these 5 in their order and
\* leaves the queue empty.
DispatchIsFifo ==
    /\ hist.dispatched \o EventIds(eventQueue) = [i \in 1..(hist.nextEventId - 1) |-> i]
    /\ tickLog.dispatched \o tickLog.eventsLeft = tickLog.eventsBefore
    /\ Len(tickLog.eventsBefore) = 5 =>
           tickLog.dispatched = tickLog.eventsBefore /\ tickLog.eventsLeft = <<>>

\* C2 witness: the first drain finds the events 1..5 and dispatches them in order
FivePushedFiveDispatched ==
    /\ tickLog.phase = "full"
    /\ tickLog.eventsBefore = <<1, 2, 3, 4, 5>>
    /\ tickLog.dispatched = <<1, 2, 3, 4, 5>>
    /\ tickLog.eventsLeft = <<>>

\* C3: a tick advances at most min(storehouses + military buildings, 40) jobs, and
\* the jobs it advances are the front of the connection queue followed by the
\* front of the construction queue.
SchedulerKeepsQuota ==
    tickLog.phase = "full" =>
        LET n == Len(tickLog.advanced)
            k == Min(n, Len(tickLog.connectBefore))
        IN /\ n <= Min(numStorehouses + numMilitary, 40)
           /\ n - k <= Len(tickLog.buildBefore)
           /\ tickLog.advanced = SubSeq(tickLog.connectBefore, 1, k)
                                     \o SubSeq(tickLog.buildBefore, 1, n - k)

\* C3 witness: more than 40 buildings and more than 40 queued jobs, 40 advanced
SchedulerAtCeiling ==
    /\ tickLog.phase = "full"
    /\ numStorehouses + numMilitary > 40
    /\ Len(tickLog.connectBefore) + Len(tickLog.buildBefore) > 40
    /\ Len(tickLog.advanced) = 40

InitReachableIsFlood ==
    gridOp.op = "construct" =>
        /\ ReachableSet = Flood(World, OwnFlags)
        /\ \A pt \in Tiles : aiMap[pt].failed_penalty = 0

\* C5 witness: a freshly constructed grid with an own flag, a tile reached
\* through a chain, and a flag of another player that the flood does not reach
InitReachableWitness ==
    /\ gridOp.op = "construct"
    /\ OwnFlags # {}
    /\ \E pt \in Tiles : aiMap[pt].reachable /\ ~IsOwnFlag(World, pt)
                         /\ \A f \in OwnFlags : pt \notin NeighbourSet(f)
    /\ \E pt \in Tiles : flagOwner[pt] = 2 /\ ~aiMap[pt].reachable

\* C6: UpdateNodesAround on a region in which ownership changed leaves every
\* reachable flag as a full InitReachableNodes on the same world would set it.
RefreshIsFullReseed ==
    (gridOp.op = "refresh" /\ gridOp.ownerChanged) =>
        \A pt \in Tiles : aiMap[pt].reachable = (pt \in Flood(World, OwnFlags))

\* C7: the position FindBestPosition returns is never a tile the map has been
\* told to avoid; when every tile of the radius that meets the minimum and the
\* building size is avoided, it returns the invalid position.
BestPositionNotAvoided ==
    resLog.op = "find" =>
        /\ resLog.result \notin avoided
        /\ (\A t \in Ball(resLog.pt, resLog.radius) :
                (resourceMap[t] >= resLog.minimum /\ aiMap[t].bq >= resLog.size)
                    => t \in avoided)
               => resLog.result = InvalidPt

\* C7 witness: the only candidate of the radius is avoided, the query returns
\* the invalid position
OnlyCandidateAvoided ==
    /\ resLog.op = "find"
    /\ resLog.result = InvalidPt
    /\ \E p \in avoided :
           {t \in Ball(resLog.pt, resLog.radius) :
               resourceMap[t] >= resLog.minimum /\ aiMap[t].bq >= resLog.size} = {p}

\* C8: a job that failed is not in a job queue after the step in which it failed
\* nor at any later time (a job enqueued later is a new job); no queued job is in
\* state Failed.
FailedJobLeavesQueue ==
    /\ \A i \in 1..Len(buildJobs) :
           buildJobs[i].id \notin hist.failedJobs /\ buildJobs[i].state # "Failed"
    /\ \A i \in 1..Len(connectJobs) :
           connectJobs[i].id \notin hist.failedJobs /\ connectJobs[i].state # "Failed"

\* C8 witness: a job failed in the last tick while other jobs stay queued
JobFailedOthersQueued ==
    /\ tickLog.phase = "full"
    /\ tickLog.failed # {}
    /\ buildJobs # <<>>

\* the storehouses on the road network of storehouse i
GroupOf(whs, i) == {j \in 1..Len(whs) : whs[j].net = whs[i].net}

CmdsFor(cmds, i) == SelectSeq(cmds, LAMBDA c : c.wh = i)

\* C9 as the specification states it: two storehouses of a group both below the
\* limit end unblocked, and when all storehouses are at or above the limit all
\* end blocked.
DistributionBlocksAtLimit ==
    distLog.calls > 0 =>
        LET b == distLog.before
        IN /\ \A i, j \in 1..Len(b) :
                  (i # j /\ b[i].net = b[j].net /\ b[i].wares < distLog.limit
                         /\ b[j].wares < distLog.limit)
                      => ~storehouses[i].stop /\ ~storehouses[j].stop
           /\ (\A i \in 1..Len(b) : b[i].wares >= distLog.limit)
                  => \A i \in 1..Len(b) : storehouses[i].stop

\* C9: after DistributeGoodsByBlocking and its commands, two storehouses of a
\* group both below the limit end unblocked, and when all storehouses of a group
\* hold more than the limit all of them end unblocked.
DistributionUnblocksFullGroup ==
    distLog.calls > 0 =>
        LET b == distLog.before
        IN /\ \A i, j \in 1..Len(b) :
                  (i # j /\ b[i].net = b[j].net /\ b[i].wares < distLog.limit
                         /\ b[j].wares < distLog.limit)
                      => ~storehouses[i].stop /\ ~storehouses[j].stop
           /\ \A i \in 1..Len(b) :
                  (\A j \in GroupOf(b, i) : b[j].wares > distLog.limit)
                      => ~storehouses[i].stop

\* C9 witness: harbors are few; one group of two blocked storehouses both below
\* the limit, another group whose blocked storehouses all hold more than the
\* limit; all end unblocked
BothCasesUnblocked ==
    /\ distLog.calls > 0
    /\ harbors < Len(distLog.before) \div 2
    /\ \E i, j, k \in 1..Len(distLog.before) :
           LET b == distLog.before
           IN /\ i # j /\ b[i].net = b[j].net /\ b[k].net # b[i].net
              /\ b[i].wares < distLog.limit /\ b[j].wares < distLog.limit
              /\ b[k].wares > distLog.limit
              /\ b[i].stop /\ b[j].stop /\ b[k].stop
              /\ ~storehouses[i].stop /\ ~storehouses[j].stop /\ ~storehouses[k].stop

\* the commands of the logged call had storehouse altAt held altWares
AltCmds(altAt, altWares) ==
    DistributeGoodsCommands([distLog.before EXCEPT ![altAt].wares = altWares],
                            harbors, distLog.limit)

\* C10: with harbors fewer than half the storehouses, the commands for a
\* storehouse are the same in two runs that differ only in the stock of a
\* storehouse of another road network.
DistributionStaysInGroup ==
    (distLog.calls > 0 /\ harbors < Len(distLog.before) \div 2) =>
        \A altAt \in 1..Len(distLog.before), altWares \in WareLevels :
            LET altCmds == AltCmds(altAt, altWares)
            IN \A i \in 1..Len(distLog.before) :
                   distLog.before[i].net # distLog.before[altAt].net
                       => CmdsFor(distLog.cmds, i) = CmdsFor(altCmds, i)

\* C10 witness: another stock of a storehouse changes the commands for its own
\* group while a storehouse of another group gets its command in both runs
OtherGroupStockDiffers ==
    /\ distLog.calls > 0
    /\ harbors < Len(distLog.before) \div 2
    /\ \E altAt, i \in 1..Len(distLog.before), altWares \in WareLevels :
           /\ distLog.before[i].net # distLog.before[altAt].net
           /\ AltCmds(altAt, altWares) # distLog.cmds
           /\ CmdsFor(distLog.cmds, i) # <<>>


\* the candidates of the logged call, by their place in the list
Candidates == 1..Len(attackLog.candidates)

\* the logged call gave one Attack, on the first of the places ks of the
\* candidate list, or none when ks is empty
FirstAttacked(ks) ==
    IF ks = {} THEN attackLog.cmds = <<>>
    ELSE LET k == CHOOSE x \in ks : \A y \in ks : x <= y
             t == attackLog.candidates[k]
         IN attackLog.cmds = << [cmd |-> "Attack", target |-> t,
                                 count |-> Cardinality(Attackers(milBlds, t))] >>

\* C11 as stated: one evaluation gives at most one Attack, on the first candidate
\* with a positive attacker count whose defender strength, on the hardest tier, is
\* exceeded by the attacker strength; none with zero own military structures.
AttackFirstOutnumbered ==
    attackLog.called =>
        /\ Len(attackLog.cmds) <= 1
        /\ numMilitary = 0 => attackLog.cmds = <<>>
        /\ FirstAttacked({k \in Candidates :
              LET t == attackLog.candidates[k]
                  attackersCount == Cardinality(Attackers(milBlds, t))
              IN /\ attackersCount > 0
                 /\ level = "Hard" => attackersCount * SoldierStrength > targets[t].strength})

\* C11 amended: the strength test of the hardest tier is made for military
\* buildings only, and there it also passes over a building without troops.
AttackFirstWorthwhile ==
    attackLog.called =>
        /\ Len(attackLog.cmds) <= 1
        /\ numMilitary = 0 => attackLog.cmds = <<>>
        /\ FirstAttacked({k \in Candidates :
              LET t == attackLog.candidates[k]
                  attackersCount == Cardinality(Attackers(milBlds, t))
              IN /\ attackersCount > 0
                 /\ (level = "Hard" /\ targets[t].got = "NobMilitary") =>
                       /\ attackersCount * SoldierStrength > targets[t].strength
                       /\ targets[t].troops > 0})

\* C11 witness: on the hardest tier the first candidate, a military building with
\* attackers in reach, is passed over and the second one is attacked
AttackPassesOverFirst ==
    /\ attackLog.called
    /\ level = "Hard"
    /\ Len(attackLog.candidates) >= 2
    /\ targets[attackLog.candidates[1]].got = "NobMilitary"
    /\ Attackers(milBlds, attackLog.candidates[1]) # {}
    /\ Len(attackLog.cmds) = 1
    /\ attackLog.cmds[1].target = attackLog.candidates[2]

\* a headquarters or harbor without defenders
UndefendedStronghold(t) == targets[t].got # "NobMilitary" /\ ~targets[t].defenders

\* C12: in the candidate list every undefended headquarters or harbor stands
\* before every other candidate, the shuffle leaves these in place and permutes
\* the others only, and when one of them has attackers in reach the Attack goes
\* to an undefended headquarters or harbor, not to a military building.
StrongholdsFirst ==
    attackLog.called =>
        LET cand == attackLog.candidates
            hq == attackLog.strongholds
        IN /\ \A i, j \in 1..Len(cand) :
                 UndefendedStronghold(cand[i]) /\ ~UndefendedStronghold(cand[j]) => i < j
           /\ hq = Cardinality({i \in 1..Len(cand) : UndefendedStronghold(cand[i])})
           /\ SubSeq(cand, 1, hq) = SubSeq(attackLog.gathered, 1, hq)
           /\ cand \in Shuffles(attackLog.gathered)
           /\ (\E i \in 1..Len(cand) :
                   UndefendedStronghold(cand[i]) /\ Attackers(milBlds, cand[i]) # {})
              => /\ Len(attackLog.cmds) = 1
                 /\ UndefendedStronghold(attackLog.cmds[1].target)

\* C12 witness: an undefended headquarters found after a military building, both
\* with attackers in reach, heads the list and is the one attacked
StrongholdOvertakesMilitary ==
    /\ attackLog.called
    /\ Len(attackLog.cmds) = 1
    /\ UndefendedStronghold(attackLog.cmds[1].target)
    /\ \E j \in 2..Len(attackLog.candidates) :
          /\ targets[attackLog.candidates[j]].got = "NobMilitary"
          /\ attackLog.candidates[j] < attackLog.cmds[1].target
          /\ Attackers(milBlds, attackLog.candidates[j]) # {}
          /\ WorthAttacking(level, targets[attackLog.candidates[j]], 1, SoldierStrength)


\* harbor point i holds a harbor of an enemy that is in sight, has no defenders
\* and has attackers in reach
UndefendedHarborInReach(i) ==
    LET hb == harborPoints[i].harbor
    IN /\ hb.got = "NobHarbor" /\ hb.visible /\ hb.attackable
       /\ ~hb.defenders /\ hb.coast /\ hb.soldiers > 0

\* C13: one evaluation gives at most one SeaAttack, none without a ship, without
\* a harbor or without a sea with attackers, and none on a defended target while
\* an undefended attackable harbor with attackers in reach exists.
SeaAttackPrefersUndefended ==
    seaLog.called =>
        /\ Len(seaLog.cmds) <= 1
        /\ (numShips = 0 \/ harbors = 0 \/ seaSoldiers = 0) => seaLog.cmds = <<>>
        /\ (seaLog.cmds # <<>> /\ \E i \in 1..Len(harborPoints) : UndefendedHarborInReach(i))
              => ~SeaTarget(harborPoints, seaLog.cmds[1].target).defenders

\* C13 witness: of an undefended harbor and a defended target, both with
\* attackers in reach, the undefended harbor is attacked
UndefendedHarborAttacked ==
    /\ seaLog.called
    /\ Len(seaLog.cmds) = 1
    /\ seaLog.cmds[1].target[2] = 0
    /\ UndefendedHarborInReach(seaLog.cmds[1].target[1])
    /\ \E i \in 1..Len(harborPoints) :
          LET hb == harborPoints[i].harbor
          IN hb.visible /\ hb.attackable /\ hb.defenders /\ hb.coast /\ hb.soldiers > 0


\* C14: a level other than Easy, Medium and Hard makes the constructor throw
\* invalid_argument and leaves no subscription; the three levels give the
\* intervals (2500, 1000), (750, 400) and (100, 200).
InvalidLevelThrows ==
    constructed # "no" =>
        /\ level \notin {"Easy", "Medium", "Hard"}
              <=> constructed = "invalid_argument"
        /\ constructed = "invalid_argument" => subscriptions = {}
        /\ level = "Easy" => intervals = <<2500, 1000>>
        /\ level = "Medium" => intervals = <<750, 400>>
        /\ level = "Hard" => intervals = <<100, 200>>

\* C14 witness: the constructor ran for a level that is none of the three
ConstructorThrew ==
    /\ constructed = "invalid_argument"
    /\ level = "Invalid"
    /\ subscriptions = {}


\* C15: on the lowest tier MilUpgradeOptim runs in no tick; on the other tiers it
\* runs in exactly the ticks with (tick + 17 * playerId) % 73 = 0 of a controller
\* that is initialised and not defeated.
MilUpgradeOnCadence ==
    [][TickCall =>
          ("MilUpgradeOptim" \in tickLog'.periodic
              <=> /\ level # "Easy"
                  /\ (tickLog'.gf + 17 * playerId) % 73 = 0
                  /\ isInitGfCompleted >= 10
                  /\ ~defeated')]_vars

\* C15 witness: MilUpgradeOptim ran in a tick that is on the cadence only with
\* the offset of the player id
MilUpgradeRanShifted ==
    /\ "MilUpgradeOptim" \in tickLog.periodic
    /\ playerId > 0
    /\ tickLog.gf % 73 # 0
    /\ level = "Medium"

\* C16 as stated: a tick in which this faction recomputes the building demand is
\* none in which a faction with another player id recomputes it.
DemandTicksDifferByFaction ==
    [][(TickCall /\ "UpdateBuildingsWanted" \in tickLog'.periodic) =>
          \A other \in (0..MaxPlayerId) \ {playerId} :
              "UpdateBuildingsWanted" \notin
                  RunGFStep(Controller, [World EXCEPT !.playerId = other],
                            tickLog'.gf, 0, TRUE).log.periodic]_vars


\* what the event is about is gone: the flag of a road event, the building of
\* a building event
EntityMissing(ev) ==
    IF ev.type = "RoadConstructionFailed" THEN flagOwner[ev.pt] = 0
    ELSE buildingOn[ev.pt] = "Nothing"

\* C17 as stated: a tick whose dispatched events all refer to an entity that no
\* longer exists gives no world command, enqueues no job and changes no grid cell.
HandlersSkipMissing ==
    [][(/\ TickCall
        /\ tickLog'.phase = "full"
        /\ tickLog'.dispatched # <<>>
        /\ \A i \in 1..Len(tickLog'.dispatched) : EntityMissing(eventQueue[i]))
       => /\ tickLog'.cmds = <<>>
          /\ hist'.nextJobId = hist.nextJobId
          /\ aiMap' = aiMap]_vars


\* a note of one of the five classes is published in this step
NotePublished == noteLog'.n # noteLog.n /\ noteLog'.class # "NodeNote"

\* this step adds exactly n events at the end of the event queue
Enqueues(n) ==
    /\ Len(eventQueue') = Len(eventQueue) + n
    /\ SubSeq(eventQueue', 1, Len(eventQueue)) = eventQueue

\* C18 as stated: every building, expedition, resource, road or ship note about
\* this faction enqueues exactly one event when it is published, and a note
\* about another faction enqueues none.
EveryOwnNoteEnqueuesOne ==
    [][NotePublished =>
          IF noteLog'.player = playerId THEN Enqueues(1) ELSE Enqueues(0)]_vars

\* C18 amended: of the ship notes only the one of a constructed ship enqueues an
\* event; a ship note of another type enqueues none.
OwnNoteEnqueuesOneButShip ==
    [][NotePublished =>
          IF /\ noteLog'.player = playerId
             /\ noteLog'.class = "ShipNote" => noteLog'.type = "Constructed"
          THEN Enqueues(1) ELSE Enqueues(0)]_vars

\* C18 witness: the last note was about this faction and its event is the last
\* of the queue, behind the event of an earlier note
OwnNoteQueued ==
    /\ noteLog.n = 2
    /\ noteLog.class = "BuildingNote" /\ noteLog.type = "NoRessources"
    /\ noteLog.player = playerId
    /\ Len(eventQueue) = 2
    /\ eventQueue[2].type = "NoMoreResourcesReachable"

\* C19: a notification callback appends to the event queue or to the list of
\* outdated nodes and leaves the node grid, the resource map and the job queues
\* as they are and gives no command.
CallbacksOnlyEnqueue ==
    [][noteLog'.n # noteLog.n =>
          /\ aiMap' = aiMap
          /\ resourceMap' = resourceMap /\ avoided' = avoided
          /\ buildJobs' = buildJobs /\ connectJobs' = connectJobs
          /\ tickLog' = tickLog
          /\ SubSeq(eventQueue', 1, Len(eventQueue)) = eventQueue
          /\ SubSeq(nodesWithOutdatedBQ', 1, Len(nodesWithOutdatedBQ)) = nodesWithOutdatedBQ]_vars

\* C19 witness: the event of a published note was dispatched by a later tick,
\* which gave the commands and enqueued the jobs
TickActedOnNote ==
    /\ noteLog.n > 0
    /\ tickLog.phase = "full"
    /\ tickLog.dispatched # <<>>
    /\ tickLog.cmds # <<>>
    /\ buildJobs # <<>>


\* C20 as stated: with neither resource the class is Nothing, or Plantspace on
\* vital terrain off the road; with a sub-surface resource a stone or wood
\* surface gives Multiple and every other surface the class of the sub-surface
\* resource.
OtherSurfaceGivesSubSurfaceClass ==
    calcLog # "NotCalled" =>
       /\ tileRes.subRes = "Nothing" /\ tileRes.surfRes = "Nothing" =>
             calcLog = IF tileRes.vital /\ ~tileRes.onRoad THEN "Plantspace" ELSE "Nothing"
       /\ tileRes.subRes # "Nothing" /\ tileRes.surfRes \in {"Stones", "Wood"} =>
             calcLog = "Multiple"
       /\ tileRes.subRes # "Nothing" /\ tileRes.surfRes \notin {"Stones", "Wood"} =>
             calcLog = tileRes.subRes

\* C20 amended: as stated, but with a sub-surface resource a blocked surface
\* gives Nothing and only a free surface gives the class of the sub-surface
\* resource; without a sub-surface resource a surface resource gives its own
\* class.
FreeSurfaceGivesSubSurfaceClass ==
    calcLog # "NotCalled" =>
       /\ tileRes.subRes = "Nothing" /\ tileRes.surfRes = "Nothing" =>
             calcLog = IF tileRes.vital /\ ~tileRes.onRoad THEN "Plantspace" ELSE "Nothing"
       /\ tileRes.subRes = "Nothing" /\ tileRes.surfRes # "Nothing" =>
             calcLog = tileRes.surfRes
       /\ tileRes.subRes # "Nothing" /\ tileRes.surfRes \in {"Stones", "Wood"} =>
             calcLog = "Multiple"
       /\ tileRes.subRes # "Nothing" /\ tileRes.surfRes = "Blocked" =>
             calcLog = "Nothing"
       /\ tileRes.subRes # "Nothing" /\ tileRes.surfRes = "Nothing" =>
             calcLog = tileRes.subRes

\* C20 witness: a tile with coal below a blocked surface was classified
BlockedOverCoalClassified ==
    /\ tileRes.subRes = "Coal" /\ tileRes.surfRes = "Blocked"
    /\ calcLog = "Nothing"


\* the place of x in the sequence q
Pos(q, x) == CHOOSE i \in 1..Len(q) : q[i] = x

\* the jobs of orders that were never advanced stand in the queue ahead of
\* every job that waited there when the order came
PendingOrdersAhead ==
    \A p \in hist.frontOrders :
       /\ p.id \in Range(JobIds(buildJobs))
       /\ \A j \in p.waiting \cap Range(JobIds(buildJobs)) :
             Pos(JobIds(buildJobs), p.id) < Pos(JobIds(buildJobs), j)

\* a job of this tick's planning: put in the queue by this call and no order
PlannedNow(job) ==
    /\ job.id >= hist.nextJobId
    /\ \A p \in tickLog'.front : p.id # job.id

\* C21: the job of a construction order, forced or not, goes to the front of
\* the build-job queue and the jobs of the periodic planning to its back: the
\* job of an order is advanced before every job that waited in the queue when
\* the order came.
OrdersOvertakeWaitingJobs ==
    [][/\ PendingOrdersAhead'
       /\ TickCall =>
             /\ \A p \in hist.frontOrders \cup tickLog'.front :
                   \A j \in p.waiting :
                      j \in Range(tickLog'.advanced) =>
                         /\ p.id \in Range(tickLog'.advanced)
                         /\ Pos(tickLog'.advanced, p.id) < Pos(tickLog'.advanced, j)
             /\ \A i \in 1..Len(buildJobs') :
                   PlannedNow(buildJobs'[i]) =>
                      \A k \in i..Len(buildJobs') : PlannedNow(buildJobs'[k])]_vars

\* C21 witness: the tick that got an order advanced its job first and then a
\* job that had waited, and its planning put jobs behind both
OrderAdvancedFirst ==
    /\ tickLog.periodic # {}
    /\ \E p \in tickLog.front :
          /\ Len(tickLog.advanced) = 2
          /\ tickLog.advanced[1] = p.id
          /\ tickLog.advanced[2] \in p.waiting
    /\ Len(buildJobs) > 2


\* the connection jobs this tick advanced whose flag was gone
OrphanJobs ==
    {connectJobs[i] : i \in {k \in 1..Len(connectJobs) :
                               /\ connectJobs[k].id \in Range(tickLog'.advanced)
                               /\ flagOwner[connectJobs[k].pt] # 1}}

\* C22: a connection job whose flag was removed before the job is executed
\* reaches Failed and leaves the queue, the tick ends as a full tick, and a
\* tick that does nothing but execute such jobs changes no node of the grid and
\* gives no command.
OrphanConnectJobFails ==
    [][TickCall /\ OrphanJobs # {} =>
          /\ \A job \in OrphanJobs :
                /\ job.id \in tickLog'.failed
                /\ job.id \notin Range(JobIds(connectJobs'))
          /\ tickLog'.phase = "full"
          /\ (/\ tickLog'.dispatched = <<>>
              /\ tickLog'.periodic = {}
              /\ \A i \in 1..Len(connectJobs) : connectJobs[i] \in OrphanJobs)
                => aiMap' = aiMap /\ tickLog'.cmds = <<>>]_vars

\* C22 witness: the only job the tick advanced was a connection job whose flag
\* is gone; it failed, and the grid still shows the tile of the flag as it was
OrphanJobFailed ==
    /\ tickLog.phase = "full"
    /\ tickLog.dispatched = <<>>
    /\ Len(tickLog.advanced) = 1
    /\ tickLog.advanced[1] \in tickLog.failed
    /\ tickLog.connectBefore = tickLog.advanced
    /\ flagBuilding = {}
    /\ aiMap # InitNodes(World)


\* C23: after the flush of a tick the list of outdated nodes is empty, every
\* tile recorded since the flush before was refreshed exactly once, and the
\* cached building quality of each of them is the one the world gives now.
FlushRefreshesEachOnce ==
    [][TickCall /\ tickLog'.phase = "full" =>
          /\ nodesWithOutdatedBQ' = <<>>
          /\ Range(tickLog'.flushed) = Range(nodesWithOutdatedBQ)
          /\ \A i, j \in 1..Len(tickLog'.flushed) :
                tickLog'.flushed[i] = tickLog'.flushed[j] => i = j
          /\ \A pt \in Range(nodesWithOutdatedBQ) : aiMap'[pt].bq = worldBQ[pt]]_vars

\* C23 witness: a tile recorded twice was refreshed by the last tick, and its
\* cached building quality changed to the one of the world
RecordedTwiceRefreshedOnce ==
    /\ tickLog.phase = "full"
    /\ noteLog.n = 2
    /\ 0 \in Range(tickLog.flushed)
    /\ aiMap[0].bq = 1 /\ worldBQ[0] = 1
    /\ aiMap[1].bq = 0 /\ worldBQ[1] = 0
    /\ nodesWithOutdatedBQ = <<>>


\* C24: the search of a site for a quarry or a fishery returns no position
\* around which no stone (fish) can be reached: such a position goes to the
\* avoid-set and the search returns the invalid position; the avoid-set never
\* shrinks and no later search returns a position of it.
UnusableSiteAvoidedForGood ==
    [][resLog'.n # resLog.n =>
          /\ avoided \subseteq avoided'
          /\ resLog'.op = "site" =>
                /\ resLog'.result \notin avoided'
                /\ resLog'.result = InvalidPt \/ resLog'.result \in resLog'.valid
                /\ (resLog'.found # InvalidPt /\ resLog'.found \notin resLog'.valid) =>
                      /\ resLog'.result = InvalidPt
                      /\ resLog'.found \in avoided']_vars

\* C24 witness: after a search gave up a position, a later search, for which
\* that position would have been usable, returned another one
AvoidedSitePassedOver ==
    /\ resLog.op = "site"
    /\ resLog.result # InvalidPt
    /\ avoided # {}
    /\ avoided \subseteq resLog.valid
    /\ \E t \in avoided : resourceMap[t] >= resourceMap[resLog.result] /\ aiMap[t].bq >= HutSize


\* C25 as stated: the random choices come from one source of the controller,
\* so two controllers constructed alike that see the same world give the same
\* attack commands.
TwinsAttackAlike ==
    attackLog.called /\ twinLog.called => attackLog.cmds = twinLog.cmds


\* a Resource of type Nothing has amount 0, and has(t) holds exactly for the
\* type of the Resource when that is not Nothing and the amount is above 0
NothingIsEmpty ==
    /\ gameRes.type = "Nothing" => gameRes.amount = 0
    /\ \A i \in 1..Len(ResourceTypes) :
          Has(gameRes, ResourceTypes[i]) <=>
             /\ gameRes.type = ResourceTypes[i]
             /\ ResourceTypes[i] # "Nothing"
             /\ gameRes.amount > 0

\* C26: after any sequence of constructions, setType and setAmount calls a
\* Resource of type Nothing has amount 0; setType to another type than Nothing
\* keeps the amount; has(t) holds exactly when the type is t, t is not Nothing
\* and the amount is above 0.
ResourceKeepsNothingEmpty ==
    [][/\ NothingIsEmpty'
       /\ (gameResLog'.op = "setType" /\ gameResLog'.type # "Nothing") =>
             gameRes' = [type |-> gameResLog'.type, amount |-> gameRes.amount]]_vars

\* C26 witness: setAmount(10) on a Resource of type Nothing left it empty
AmountSetOnNothing ==
    /\ gameResLog.op = "setAmount"
    /\ gameResLog.amount = 10
    /\ gameRes = NoResource

\* C27: a Resource built from a type and an amount from 1 to 15, converted to
\* its 8-bit value and back, has the same type and the same amount (amount 0
\* when the type is Nothing).
ConvertRoundTrip ==
    gameResLog.op = "convert" =>
       /\ gameResLog.copy.type = gameResLog.type
       /\ gameResLog.copy.amount = IF gameResLog.type = "Nothing" THEN 0 ELSE gameResLog.amount

\* C27 witness: fish of amount 15 went through the byte 111
FishConverted ==
    /\ gameResLog.op = "convert"
    /\ gameResLog.type = "Fish" /\ gameResLog.amount = MaxAmount
    /\ gameResLog.byte = 111
    /\ gameResLog.copy = gameRes


\* what a call of RunGF that does no work leaves alone
TickLeftAlone ==
    /\ eventQueue' = eventQueue
    /\ nodesWithOutdatedBQ' = nodesWithOutdatedBQ
    /\ buildJobs' = buildJobs
    /\ connectJobs' = connectJobs
    /\ aiMap' = aiMap
    /\ hist'.dispatched = hist.dispatched
    /\ hist'.fullTicks = hist.fullTicks

\* nothing was taken from the queues, no job was touched and no node changed
NoWorkDone ==
    /\ Len(eventQueue') >= Len(eventQueue)
    /\ SubSeq(eventQueue', 1, Len(eventQueue)) = eventQueue
    /\ Len(nodesWithOutdatedBQ') >= Len(nodesWithOutdatedBQ)
    /\ SubSeq(nodesWithOutdatedBQ', 1, Len(nodesWithOutdatedBQ)) = nodesWithOutdatedBQ
    /\ buildJobs' = buildJobs
    /\ connectJobs' = connectJobs
    /\ aiMap' = aiMap
    /\ hist'.dispatched = hist.dispatched
    /\ hist'.fullTicks = hist.fullTicks

\* the call of RunGF that has just returned did no work of a full tick
TickDidNothing ==
    /\ tickLog'.dispatched = <<>>
    /\ tickLog'.advanced = <<>>
    /\ tickLog'.flushed = <<>>
    /\ tickLog'.periodic = {}
    /\ tickLog'.cmds = <<>>

\* C28: each of the first 10 calls of RunGF of a controller that is not defeated
\* only counts the call; the first of them runs InitStoreAndMilitarylists and
\* InitDistribution, the others run nothing; none dispatches an event, advances
\* a job, refreshes the recorded tiles, declares the defeat or runs a periodic
\* subsystem, and the queued events and the recorded tiles stay as they are.
FirstCallsOnlyInitialise ==
    [][(/\ ~defeated
        /\ isInitGfCompleted < InitGfCalls
        /\ <<isInitGfCompleted, defeated, tickLog>>' # <<isInitGfCompleted, defeated, tickLog>>)
       => /\ isInitGfCompleted' = isInitGfCompleted + 1
          /\ ~defeated'
          /\ tickLog'.steps = IF isInitGfCompleted = 0
                              THEN <<"InitStoreAndMilitarylists", "InitDistribution">>
                              ELSE <<>>
          /\ TickDidNothing
          /\ TickLeftAlone]_vars

\* C28 witness: the tenth call has returned; an event and recorded tiles wait,
\* and the player has no storehouse
TenthCallKeptTheWork ==
    /\ isInitGfCompleted = InitGfCalls
    /\ tickLog.phase = "init"
    /\ eventQueue # <<>>
    /\ nodesWithOutdatedBQ # <<>>
    /\ numStorehouses = 0
    /\ ~defeated

\* C29: 'defeated' is set by a call that finds an initialised controller without
\* storehouse, and this call issues Surrender and one chat message; once set it
\* stays set, and a later call of RunGF dispatches no event, advances no job,
\* changes no node of the grid and issues no command.
DefeatIsAbsorbing ==
    [][/\ (~defeated /\ defeated') =>
             /\ isInitGfCompleted >= InitGfCalls
             /\ numStorehouses = 0
             /\ tickLog'.cmds = <<<<"Surrender">>, <<"Chat">>>>
             /\ TickLeftAlone
       /\ defeated =>
             /\ defeated'
             /\ NoWorkDone
             /\ tickLog' # tickLog =>
                   tickLog'.phase = "defeated" /\ TickDidNothing /\ TickLeftAlone]_vars

\* C29 witness: a call of a defeated controller has returned with an event and a
\* job still queued
DefeatedCallReturned ==
    /\ defeated
    /\ tickLog.phase = "defeated"
    /\ eventQueue # <<>>
    /\ buildJobs # <<>>


RetryOnlyForUnconnectedFlag ==
    roadLog.handler = "RoadConstructionFailed" =>
       /\ roadLog.enqueued # <<>> =>
             /\ roadLog.enqueued = <<roadLog.start>>
             /\ roadNet.owner[roadLog.start] = 1
             /\ roadLog.start \in roadNet.buildings
             /\ Routes(roadNet, roadLog.start) = <<>>
       /\ roadNet.owner[roadLog.start] # 1 =>
             roadLog.cmds = <<>> /\ roadLog.enqueued = <<>>


\* C32: for a ship that waits for instructions HandleExpedition issues exactly
\* one command, FoundColony, TravelToNextSpot or CancelExpedition, and
\* CancelExpedition only when no direction of ShipDirection is a possible
\* direction of exploration; for a ship that does not wait it issues nothing.
ExpeditionCancelledOnlyWithoutDirection ==
    heurLog.called = "HandleExpedition" =>
       IF heurWorld.waiting
       THEN /\ Len(heurLog.cmds) = 1
            /\ heurLog.cmds[1][1] \in {"FoundColony", "TravelToNextSpot", "CancelExpedition"}
            /\ heurLog.cmds[1][1] = "CancelExpedition" => heurWorld.possible = {}
       ELSE heurLog.cmds = <<>>


\* C33: the scan of TrySeaAttack examines every harbor point from 1 to
\* GetNumHarborPoints(): a visible harbor of an attackable player in reach of
\* the attackers is listed as undefended or as defended target, and a point
\* without harbor or with the visible harbor of a player that cannot be
\* attacked is listed as a spot to search around.
HarborScanChecksAll ==
    (seaLog.called /\ numShips >= 1 /\ harbors # 0 /\ seaSoldiers # 0) =>
       \A i \in 1..Len(harborPoints) :
          LET hb == harborPoints[i].harbor
          IN /\ (hb.got = "NobHarbor" /\ hb.visible /\ hb.attackable /\ hb.coast) =>
                   IF hb.defenders THEN <<i, 0>> \in Range(seaLog.potential)
                   ELSE <<i, 0>> \in Range(seaLog.undefended)
             /\ (hb.got # "NobHarbor" \/ (hb.visible /\ ~hb.attackable)) =>
                   i \in Range(seaLog.search)


\* C34: one call of TryToAttack searches for targets from at most 40 own
\* military buildings, however many the player has.
AtMostLimitOrigins ==
    heurLog.called = "TryToAttack" => Len(heurLog.origins) <= AttackSampleLimit


\* the neighbour the next step tests
Tested == GetNeighbours(Head(flood.toCheck))[flood.i]

\* C35: a step of the propagation that meets a tile which is not yet reachable,
\* passes IsNodeOk and has a failed penalty above 0 lowers the penalty by one
\* and leaves the tile unreachable; a tile becomes reachable only in a step that
\* meets it with penalty 0; no penalty goes below 0.
PenaltyCountsDown ==
    [][/\ (/\ ~aiMap[Tested].reachable
           /\ IsNodeOk(World, Tested)
           /\ aiMap[Tested].failed_penalty > 0)
          => aiMap'[Tested] = [aiMap[Tested] EXCEPT !.failed_penalty = @ - 1]
       /\ \A pt \in Tiles :
             /\ (aiMap'[pt].reachable /\ ~aiMap[pt].reachable)
                   => pt = Tested /\ aiMap[pt].failed_penalty = 0 /\ IsNodeOk(World, pt)
             /\ aiMap'[pt].failed_penalty >= 0
             /\ aiMap'[pt].failed_penalty # aiMap[pt].failed_penalty => pt = Tested]_vars

\* C35 witness: a tile that started with the greatest penalty has been met often
\* enough: its penalty is 0 and it is reachable
PenaltyServed ==
    \E pt \in PenaltyTiles :
       /\ flood.penalty[pt] = MaxPenalty
       /\ aiMap[pt].failed_penalty = 0
       /\ aiMap[pt].reachable
       /\ flood.pushed[pt] = 1

\* C38: the propagation ends (toCheck becomes empty) on every grid and for every
\* seed queue; it appends a tile to toCheck only when it marks the tile
\* reachable, each tile at most once, and it never makes a reachable tile
\* unreachable.
PropagationEnds ==
    /\ <>(flood.toCheck = <<>>)
    /\ [][\A pt \in Tiles :
             /\ aiMap[pt].reachable => aiMap'[pt].reachable
             /\ flood'.pushed[pt] <= 1
             /\ flood'.pushed[pt] # flood.pushed[pt] =>
                   ~aiMap[pt].reachable /\ aiMap'[pt].reachable]_vars

\* C38 witness: the propagation has ended after it has queued a tile
PropagationEnded ==
    /\ flood.toCheck = <<>>
    /\ flood.pushed # <<>>
    /\ \E pt \in Tiles : flood.pushed[pt] = 1
    /\ \E pt \in Tiles : ~aiMap[pt].reachable

\* C36: whenever SimpleFindPosition or BQsurroundcheck evaluates its assertion on
\* a tile, the cached building quality of the tile is the one the world gives,
\* when every change of a building quality was notified before the tick.
CachedQualityIsCurrent ==
    heurLog.called = "inspect" =>
        /\ heurLog.site.failed = {} /\ heurLog.rated.failed = {}
        /\ \A pt \in heurLog.site.asserted \cup heurLog.rated.asserted :
              aiMap[pt].bq = worldBQ[pt] \/ pt \in Range(nodesWithOutdatedBQ)

\* C36 witness: the search asserted on a tile whose building quality had changed
\* and was refreshed by the flush of the same tick, and found a site
ChangedTileInspected ==
    /\ heurLog.called = "inspect"
    /\ tickLog.phase = "full"
    /\ \E pt \in heurLog.site.asserted : pt \in Range(tickLog.flushed) /\ worldBQ[pt] = 1
    /\ heurLog.rated.asserted # {}
    /\ heurLog.site.pos # InvalidPt

\* C37: a call of DistributeGoodsByBlocking that gets past the early return
\* to the assertion finds at least two storehouses; with fewer than two the
\* call returns early and leaves the good unblocked in every storehouse.
AssertionOnStorehousesHolds ==
    distLog.calls > 0 =>
        /\ distLog.asserted => Len(distLog.before) >= 2
        /\ Len(distLog.before) < 2 =>
              /\ ~distLog.asserted
              /\ \A i \in 1..Len(storehouses) : ~storehouses[i].stop

\* C37 witness: with two storehouses and no harbor the call reached the assertion
AssertionReachedWithTwo ==
    /\ distLog.calls > 0
    /\ distLog.asserted
    /\ Len(distLog.before) = 2
    /\ harbors = 0

DesignatedUpgradeBuildings ==
    {i \in 1..Len(heurWorld.mil) :
        /\ heurWorld.numStorehouses > 0
        /\ heurWorld.mil[i].type \in {"Watchtower", "Fortress"}
        /\ heurWorld.mil[i].far /\ heurWorld.mil[i].connected
        /\ \A j \in 1..(i - 1) :
              ~(/\ heurWorld.mil[j].type \in {"Watchtower", "Fortress"}
                /\ heurWorld.mil[j].far /\ heurWorld.mil[j].connected)}

\* C40: PlanNewBuildings issues no DestroyBuilding for the upgrade building; the
\* picked military building is destroyed only if it is useless, its demolition
\* is allowed and it is not the upgrade building.
UpgradeBuildingNotDestroyed ==
    heurLog.called = "PlanNewBuildings" =>
        \A k \in 1..Len(heurLog.cmds) :
            /\ heurLog.cmds[k] = <<"DestroyBuilding", heurLog.picked>>
            /\ heurLog.picked \notin DesignatedUpgradeBuildings
            /\ heurWorld.mil[heurLog.picked].useless
            /\ heurWorld.mil[heurLog.picked].demolitionAllowed

\* C40 witness: the picked building is the upgrade building, useless and free
\* to be demolished, not the first of the list, and no command was issued
UselessUpgradeBuildingSpared ==
    /\ heurLog.called = "PlanNewBuildings"
    /\ heurLog.asked
    /\ heurLog.picked \in DesignatedUpgradeBuildings
    /\ heurLog.picked > 1
    /\ heurLog.cmds = <<>>

====
